---- MODULE Spec2Model ----
(***************************************************************************)
(* A model of the rlox tree-walking interpreter: the resolver              *)
(* (src/src/resolver.rs), the environments and the evaluator               *)
(* (src/src/tree_walker.rs), functions (src/src/callable.rs), classes and  *)
(* instances (src/src/class.rs) and the driver loop (src/src/main.rs).     *)
(*                                                                         *)
(* The evaluator is recursive in the source, and it is recursive here: the *)
(* visit_* operators thread an evaluator state record `st` through the     *)
(* syntax tree exactly as the Rust methods thread `&mut self`.  Reference  *)
(* counted cells (Rc<RefCell<..>>) are indices into the heaps `envs` and   *)
(* `instances`.  Three fields of the record are history variables: `log`,  *)
(* the evaluation events of the statement being executed; `frames`, the    *)
(* closures of the function calls in progress; `initializing`, the         *)
(* <<environment, name>> pairs of the var declarations whose initializer   *)
(* is being evaluated.  `evals` counts the expressions visited.            *)
(*                                                                         *)
(* The front end is modelled too: the scanner (src/src/scan.rs), one       *)
(* scan_token to an action, over sources that are sequences of characters, *)
(* and the recursive-descent parser (src/src/parse.rs), one round of the   *)
(* loop of Parser::parse to an action.  There are four specifications:     *)
(* Spec runs resolver and evaluator over syntax trees at the prompt,       *)
(* SpecScan (SpecScanFair with fairness) scans line after line with one    *)
(* Scanner, SpecParse (SpecParseFair with fairness) scans and parses the   *)
(* source of a file, SpecRun runs lines of characters through all of       *)
(* Interpreter::run: scanner, parser, resolver and evaluator.              *)
(***************************************************************************)
EXTENDS Integers, Sequences, FiniteSets, TLC

(***************************************************************************)
(* Bounds of the model.                                                    *)
(***************************************************************************)
\* number of REPL lines one behaviour reads
MaxLines == 2
\* function calls plus loop iterations one top-level statement may perform
MaxFuel == 6
\* latest time, in seconds since the epoch, the system clock shows
MaxClock == 1
\* number of scans one Scanner performs at the prompt
MaxScans == 2
\* longest of the short parameter and argument lists
MaxShort == 1
\* how far the long parameter and argument lists go beyond MAX_PARAMETERS
MaxOver == 2

VARIABLES
    envs,           \* heap of Environment cells: [values, parent]; parent 0 is None
    instances,      \* heap of LoxInstance cells: [class, fields]
    environment,    \* TreeWalker.environment (index into envs)
    locals,         \* TreeWalker.locals: token id -> depth
    outputted,      \* Recorder.outputted
    statements,     \* statements of the current input still to be visited
    resolving,      \* statements of the current input still to be resolved
    errors,         \* Resolver.errors
    had_error,      \* Interpreter.had_error
    pc,             \* "prompt", "resolve", "eval", "ran", or "crashed" (a panic)
    lines,          \* inputs already read (each input is read at most once)
    log,            \* evaluation events of the last visited statement
    last,           \* outcome of the last stage: "", "Ok", or an error kind
    source,         \* the source string being scanned
    scanner,        \* Interpreter.scanner
    parser,         \* the Parser of the run, with its place in the tokens
    fpc,            \* where the scanner and the parser of the run stand
    scans           \* number of scans started

\* the interpreter behind the parser
interp == <<envs, instances, environment, locals, outputted, statements,
            resolving, errors, had_error, pc, lines, log, last>>

\* the scanner and the parser
front == <<source, scanner, parser, fpc, scans>>

vars == <<interp, front>>

(***************************************************************************)
(* Maps (HashMap<String, _>) are functions over a finite set of keys.      *)
(***************************************************************************)
EmptyMap == << >>

\* HashMap::insert
Insert(m, k, v) == (k :> v) @@ m

\* HashMap::contains_key
ContainsKey(m, k) == k \in DOMAIN m

(***************************************************************************)
(* Tokens and runtime values (tree_walker.rs Value, tokens.rs LiteralValue)*)
(***************************************************************************)
Tok(id, lexeme) == [id |-> id, lexeme |-> lexeme]

NumberValue(n) == [t |-> "Number", n |-> n]

StringValue(s) == [t |-> "String", s |-> s]

BooleanValue(b) == [t |-> "Boolean", b |-> b]

NilValue == [t |-> "Nil"]

ClockCallable == [t |-> "Clock"]

InstanceValue(i) == [t |-> "Instance", i |-> i]

\* Option::None for a superclass, an initializer, an else branch, a return value
None == [t |-> "None", e |-> "None", s |-> "None"]

\* Function::new
Function(declaration, closure, is_initializer) ==
    [t |-> "Function", declaration |-> declaration, closure |-> closure,
     is_initializer |-> is_initializer]

\* LoxClass::new
LoxClass(name, methods, superclass) ==
    [t |-> "Class", name |-> name, methods |-> methods, superclass |-> superclass]

\* LoxInstance::new
LoxInstance(class) == [class |-> class, fields |-> EmptyMap]

\* impl Display for Value
Display(v) ==
    CASE v.t = "Number" -> ToString(v.n)
      [] v.t = "String" -> v.s
      [] v.t = "Boolean" -> IF v.b THEN "true" ELSE "false"
      [] v.t = "Nil" -> "nil"
      [] v.t = "Function" -> "<fn " \o v.declaration.name.lexeme \o ">"
      [] v.t = "Clock" -> "<native fn clock>"
      [] v.t = "Class" -> "<class " \o v.name \o ">"
      [] OTHER -> "<instance>"

\* impl Display for LoxInstance, reached through Value::InstanceValue
DisplayIn(insts, v) ==
    IF v.t = "Instance" THEN "<" \o insts[v.i].class.name \o " instance>"
    ELSE Display(v)

\* TreeWalker::is_truthy
is_truthy(val) ==
    CASE val.t = "Boolean" -> val.b
      [] val.t = "Nil" -> FALSE
      [] OTHER -> TRUE

\* TreeWalker::is_equal
is_equal(left, right) ==
    CASE left.t = "Number" /\ right.t = "Number" -> left.n = right.n
      [] left.t = "String" /\ right.t = "String" -> left.s = right.s
      [] left.t = "Boolean" /\ right.t = "Boolean" -> left.b = right.b
      [] left.t = "Nil" /\ right.t = "Nil" -> TRUE
      [] OTHER -> FALSE

(***************************************************************************)
(* Environment (tree_walker.rs).  `es` is the heap, `e` the cell of self.  *)
(***************************************************************************)
\* Environment::new, with the parent the caller sets right after
Environment(values, parent) == [values |-> values, parent |-> parent]

\* the environment in whose own map Environment::get finds the name; 0 if none
RECURSIVE FindEnv(_, _, _)
FindEnv(es, e, name) ==
    IF ContainsKey(es[e].values, name) THEN e
    ELSE IF es[e].parent # 0 THEN FindEnv(es, es[e].parent, name)
    ELSE 0

\* Environment::get; env tells in which cell the value was found
get(es, e, name) ==
    LET f == FindEnv(es, e, name) IN
    IF f # 0 THEN [kind |-> "Ok", val |-> es[f].values[name], env |-> f]
    ELSE [kind |-> "NameError", val |-> NilValue, env |-> 0]

\* Environment::ancestor; 0 stands for the panic of unwrap() on a None parent
RECURSIVE Walk(_, _, _)
Walk(es, e, n) ==
    IF e = 0 THEN 0
    ELSE IF n = 0 THEN e
    ELSE Walk(es, es[e].parent, n - 1)

ancestor(es, e, depth_from_self) == Walk(es, es[e].parent, depth_from_self)

\* Environment::get_at
get_at(es, e, name, depth) ==
    IF depth = 0 THEN get(es, e, name)
    ELSE LET a == ancestor(es, e, depth - 1) IN
         IF a = 0 THEN [kind |-> "Panic", val |-> NilValue, env |-> 0]
         ELSE get(es, a, name)

\* an assign that defines the name in e when no environment defines it
assign_defining(es, e, name, value) ==
    LET f == FindEnv(es, e, name) IN
    [kind |-> "Ok",
     envs |-> [es EXCEPT ![IF f # 0 THEN f ELSE e].values = Insert(@, name, value)]]

\* Environment::assign
assign(es, e, name, value) ==
    LET f == FindEnv(es, e, name) IN
    IF f # 0
    THEN [kind |-> "Ok", envs |-> [es EXCEPT ![f].values = Insert(@, name, value)]]
    ELSE [kind |-> "NameError", envs |-> es]

\* Environment::assign_at.  With depth = 0 the insert is not followed by a
\* return, so `depth - 1` is evaluated on a usize 0: a debug build panics on
\* the subtraction, a release build wraps to usize::MAX and ancestor() walks
\* the finite parent chain until unwrap() meets None.  Both builds panic,
\* after the insert.
assign_at(es, e, depth, name, value) ==
    IF depth = 0
    THEN [kind |-> "Panic", envs |-> [es EXCEPT ![e].values = Insert(@, name, value)]]
    ELSE LET a == ancestor(es, e, depth - 1) IN
         IF a = 0 THEN [kind |-> "Panic", envs |-> es]
         ELSE [kind |-> "Ok", envs |-> [es EXCEPT ![a].values = Insert(@, name, value)]]

(***************************************************************************)
(* The evaluator state record and results.                                 *)
(* A result is [st, kind, val]: kind "Ok" is Ok(val); "Return" is the      *)
(* Return(val) error kind; "TypeError", "NameError", "AttributeError" and  *)
(* "RuntimeError" are the LoxErrorKind of an Err; "Panic" is a Rust panic  *)
(* (nothing catches it: the process ends); "Fuel" marks an evaluation that *)
(* leaves the bounds of the model.                                         *)
(***************************************************************************)
Res(st, kind, val) == [st |-> st, kind |-> kind, val |-> val]

\* the `?` operator: an Err leaves the function at once with that Err, an Ok
\* value goes on.  r is evaluated once, as the element of a set.
Try(r, F(_)) ==
    CHOOSE out \in {IF v.kind # "Ok" THEN v ELSE F(v) : v \in {r}} : TRUE

\* a `let` binding
Let(v, F(_)) == CHOOSE out \in {F(w) : w \in {v}} : TRUE

\* one more expression visited
Visited(st) == [st EXCEPT !.evals = @ + 1]

Emit(st, event) == [st EXCEPT !.log = Append(@, event)]

\* what a side effect of an expression can change
Snap(st) == [envs |-> st.envs, instances |-> st.instances,
             outputted |-> st.outputted, evals |-> st.evals]

\* the global environment is the first cell (TreeWalker::new_from_outputter)
globals == 1

\* TreeWalker::define
define(st, name, value) ==
    [st EXCEPT !.envs[st.environment].values = Insert(@, name, value)]

\* the closure of the function whose call is running; 0 at top level
Frame(st) == IF st.frames = << >> THEN 0 ELSE st.frames[Len(st.frames)]

\* look_up_variable without the depth table: the name is searched from the
\* current environment outwards
look_up_variable_dynamic(st, token) ==
    get(st.envs, st.environment, token.lexeme)

\* TreeWalker::look_up_variable
look_up_variable(st, token) ==
    IF ContainsKey(locals, token.id)
    THEN get_at(st.envs, st.environment, token.lexeme, locals[token.id])
    ELSE get(st.envs, globals, token.lexeme)

\* the function whose call is running is a method bound to an instance of a
\* class with a superclass: its closure defines `this`, in the environment
\* that defines `super`
InSubclassMethod(st) ==
    /\ Frame(st) # 0
    /\ ContainsKey(st.envs[Frame(st)].values, "this")
    /\ st.envs[Frame(st)].parent # 0
    /\ ContainsKey(st.envs[st.envs[Frame(st)].parent].values, "super")

\* the record of one look_up_variable, taken before it runs
LookupEvent(st, node, token, r) ==
    LET d == IF ContainsKey(locals, token.id) THEN locals[token.id] ELSE -1
        target == IF d < 0 THEN 0 ELSE Walk(st.envs, st.environment, d)
    IN [ev |-> "lookup", node |-> node, id |-> token.id, name |-> token.lexeme,
        depth |-> d, cur |-> st.environment, target |-> target,
        own |-> IF target = 0 THEN {} ELSE DOMAIN st.envs[target].values,
        found |-> r.env, frame |-> Frame(st), kind |-> r.kind, val |-> r.val,
        subclass |-> InSubclassMethod(st)]

\* TreeWalker::visit_variable
visit_variable(st, expr) ==
    Let(look_up_variable(st, expr.token), LAMBDA r :
        Res(Emit(st, LookupEvent(st, "Variable", expr.token, r)), r.kind, r.val))

\* TreeWalker::visit_this
visit_this(st, expr) ==
    Let(look_up_variable(st, expr.keyword), LAMBDA r :
        Res(Emit(st, LookupEvent(st, "This", expr.keyword, r)), r.kind, r.val))

\* TreeWalker::visit_literal
visit_literal(st, expr) == Res(st, "Ok", expr.value)

\* bind defining `this` in the closure of the method instead of a new cell
bind_shared(st, f, instance) ==
    LET st1 == [st EXCEPT !.envs[f.closure].values =
                              Insert(@, "this", InstanceValue(instance))]
        bound == Function(f.declaration, f.closure, f.is_initializer)
    IN [st |-> Emit(st1, [ev |-> "bind", method |-> f, instance |-> instance,
                          before |-> st.envs, after |-> st1.envs, bound |-> bound]),
        fn |-> bound]

\* Function::bind: a new environment cell whose parent is the closure
bind(st, f, instance) ==
    LET env == Environment(Insert(EmptyMap, "this", InstanceValue(instance)), f.closure)
        new == Len(st.envs) + 1
        bound == Function(f.declaration, new, f.is_initializer)
        st1 == [st EXCEPT !.envs = Append(@, env)]
    IN [st |-> Emit(st1, [ev |-> "bind", method |-> f, instance |-> instance,
                          before |-> st.envs, after |-> st1.envs, bound |-> bound]),
        fn |-> bound]

\* LoxInstance::get
LoxInstance_get(st, i, name) ==
    LET self == st.instances[i] IN
    IF ContainsKey(self.fields, name) THEN Res(st, "Ok", self.fields[name])
    ELSE IF ContainsKey(self.class.methods, name)
    THEN Let(bind(st, self.class.methods[name], i), LAMBDA b : Res(b.st, "Ok", b.fn))
    ELSE Res(st, "AttributeError", NilValue)

\* LoxInstance::set
LoxInstance_set(st, i, name, value) ==
    [st EXCEPT !.instances[i].fields = Insert(@, name, value)]

\* impl LoxCallable for LoxClass: arity
LoxClass_arity(class) ==
    IF ContainsKey(class.methods, "init")
    THEN Len(class.methods["init"].declaration.parameters)
    ELSE 0

\* impl LoxCallable for ClockCallable: arity
ClockCallable_arity == 0

\* impl LoxCallable for Function: arity
Function_arity(f) == Len(f.declaration.parameters)

\* the environment Function::call fills by defining the parameters in order
ParamValues(parameters, arguments) ==
    [n \in {parameters[k].lexeme : k \in 1..Len(parameters)} |->
        LET k == CHOOSE k \in 1..Len(parameters) :
                    /\ parameters[k].lexeme = n
                    /\ \A j \in 1..Len(parameters) : parameters[j].lexeme = n => j <= k
        IN arguments[k]]

(***************************************************************************)
(* Expressions (tree_walker.rs).                                           *)
(***************************************************************************)
RECURSIVE visit_expr(_, _)
RECURSIVE visit_statement(_, _)
RECURSIVE visit_arguments(_, _, _)
RECURSIVE execute_statements(_, _, _, _)
RECURSIVE visit_while_statement(_, _)
RECURSIVE Function_call(_, _, _)

\* the match of visit_binary on the operator and the variants of the operands
binary_operation(st, op, left, right) ==
    LET nums == left.t = "Number" /\ right.t = "Number"
    IN CASE op = "BangEqual" -> Res(st, "Ok", BooleanValue(~is_equal(left, right)))
         [] op = "EqualEqual" -> Res(st, "Ok", BooleanValue(is_equal(left, right)))
         [] op = "Greater" /\ nums -> Res(st, "Ok", BooleanValue(left.n > right.n))
         [] op = "GreaterEqual" /\ nums -> Res(st, "Ok", BooleanValue(left.n >= right.n))
         [] op = "Less" /\ nums -> Res(st, "Ok", BooleanValue(left.n < right.n))
         [] op = "LessEqual" /\ nums -> Res(st, "Ok", BooleanValue(left.n <= right.n))
         [] op = "Minus" /\ nums -> Res(st, "Ok", NumberValue(left.n - right.n))
         [] op = "Plus" /\ nums -> Res(st, "Ok", NumberValue(left.n + right.n))
         [] op = "Plus" /\ left.t = "String" /\ right.t = "String" ->
                Res(st, "Ok", StringValue(left.s \o right.s))
         [] op = "Star" /\ nums -> Res(st, "Ok", NumberValue(left.n * right.n))
         \* f64 division: the model holds the integral quotients only
         [] op = "Slash" /\ nums ->
                IF right.n # 0 /\ left.n % right.n = 0
                THEN Res(st, "Ok", NumberValue(left.n \div right.n))
                ELSE Res(st, "Fuel", NilValue)
         [] OTHER -> Res(st, "TypeError", NilValue)

\* TreeWalker::visit_binary
visit_binary(st, expr) ==
    Try(visit_expr(st, expr.left), LAMBDA l :
    Try(visit_expr(l.st, expr.right), LAMBDA r :
        binary_operation(r.st, expr.operator, l.val, r.val)))

\* TreeWalker::visit_unary
visit_unary(st, expr) ==
    Try(visit_expr(st, expr.right), LAMBDA r :
        IF expr.operator = "Bang"
        THEN Res(Emit(r.st, [ev |-> "bang", operand |-> r.val, kind |-> "Ok",
                             val |-> BooleanValue(is_truthy(r.val))]),
                 "Ok", BooleanValue(is_truthy(r.val)))
        ELSE IF r.val.t = "Number" THEN Res(r.st, "Ok", NumberValue(r.val.n * (-1)))
        ELSE Res(r.st, "TypeError", NilValue))

\* the record of one visit_assignment: the heap before and after the write
AssignEvent(st, expr, value, kind, after) ==
    LET d == IF ContainsKey(locals, expr.token.id) THEN locals[expr.token.id] ELSE -1
        target == IF d < 0 THEN 0 ELSE Walk(st.envs, st.environment, d)
    IN [ev |-> "assign", id |-> expr.token.id, name |-> expr.token.lexeme,
        depth |-> d, cur |-> st.environment, target |-> target,
        own |-> IF target = 0 THEN {} ELSE DOMAIN st.envs[target].values,
        before |-> st.envs, after |-> after, value |-> value, kind |-> kind,
        initializing |-> st.initializing, subclass |-> InSubclassMethod(st)]

\* TreeWalker::visit_assignment
visit_assignment(st, expr) ==
    Try(visit_expr(st, expr.value), LAMBDA v :
    Let(IF ContainsKey(locals, expr.token.id)
        THEN assign_at(v.st.envs, v.st.environment, locals[expr.token.id],
                       expr.token.lexeme, v.val)
        ELSE assign(v.st.envs, globals, expr.token.lexeme, v.val), LAMBDA w :
        Res(Emit([v.st EXCEPT !.envs = w.envs],
                 AssignEvent(v.st, expr, v.val, w.kind, w.envs)),
            w.kind, IF w.kind = "Ok" THEN v.val ELSE NilValue)))

\* the record of one visit_logical that returned Ok
LogicalEvent(expr, l, short, rhs, atreturn, val) ==
    [ev |-> "logical", operator |-> expr.operator, left |-> l.val, short |-> short,
     right |-> expr.right, rhs |-> rhs, atleft |-> Snap(l.st),
     atreturn |-> Snap(atreturn), val |-> val]

\* the test of visit_logical on the left value: true when it is returned
returns_left(operator, left) ==
    \/ operator = "And" /\ ~is_truthy(left)
    \/ operator = "Or" /\ is_truthy(left)

\* visit_logical evaluating both operands before it looks at the left one
visit_logical_eager(st, expr) ==
    Try(visit_expr(st, expr.left), LAMBDA l :
    Try(visit_expr(l.st, expr.right), LAMBDA r :
        IF returns_left(expr.operator, l.val)
        THEN Res(Emit(r.st, LogicalEvent(expr, l, TRUE, None, r.st, l.val)), "Ok", l.val)
        ELSE Res(Emit(r.st, LogicalEvent(expr, l, FALSE, r.val, r.st,
                                         BooleanValue(is_truthy(r.val)))),
                 "Ok", BooleanValue(is_truthy(r.val)))))

\* TreeWalker::visit_logical
visit_logical(st, expr) ==
    Try(visit_expr(st, expr.left), LAMBDA l :
        IF returns_left(expr.operator, l.val)
        THEN Res(Emit(l.st, LogicalEvent(expr, l, TRUE, None, l.st, l.val)), "Ok", l.val)
        ELSE Try(visit_expr(l.st, expr.right), LAMBDA r :
                 Res(Emit(r.st, LogicalEvent(expr, l, FALSE, r.val, r.st,
                                             BooleanValue(is_truthy(r.val)))),
                     "Ok", BooleanValue(is_truthy(r.val)))))

\* impl LoxCallable for LoxClass: call
LoxClass_call(st, class, arguments) ==
    IF ContainsKey(class.methods, "init")
    THEN Let(bind([st EXCEPT !.instances = Append(@, LoxInstance(class))],
                  class.methods["init"], Len(st.instances) + 1), LAMBDA b :
         Try(Function_call(b.st, b.fn, arguments), LAMBDA r :
             Res(r.st, "Ok", InstanceValue(Len(st.instances) + 1))))
    ELSE Res([st EXCEPT !.instances = Append(@, LoxInstance(class))],
             "Ok", InstanceValue(Len(st.instances) + 1))

\* impl LoxCallable for ClockCallable: call.  SystemTime::now() is the field
\* `now` of the state; the clock of the model is not before the epoch.
ClockCallable_call(st) == Res(st, "Ok", NumberValue(st.now))

\* a result with the record of the call that gave it; a panic records nothing
Called(r, event) ==
    IF r.kind \in {"Panic", "Fuel"} THEN r
    ELSE Res(Emit(r.st, [event EXCEPT !.kind = r.kind, !.val = r.val]), r.kind, r.val)

\* TreeWalker::visit_call
visit_call(st, expr) ==
    Try(visit_expr(st, expr.callee), LAMBDA c :
    Try(visit_arguments(c.st, expr.arguments, << >>), LAMBDA a :
        CASE c.val.t = "Function" ->
               Called(IF Len(a.val) # Function_arity(c.val)
                      THEN Res(a.st, "TypeError", NilValue)
                      ELSE Function_call(a.st, c.val, a.val),
                      [ev |-> "invoke", callee |-> c.val, args |-> a.val,
                       kind |-> "", val |-> NilValue])
          [] c.val.t = "Clock" ->
               IF Len(a.val) # ClockCallable_arity THEN Res(a.st, "TypeError", NilValue)
               ELSE ClockCallable_call(a.st)
          [] c.val.t = "Class" ->
               Called(IF Len(a.val) # LoxClass_arity(c.val)
                      THEN Res(a.st, "TypeError", NilValue)
                      ELSE LoxClass_call(a.st, c.val, a.val),
                      [ev |-> "classcall", class |-> c.val, args |-> a.val,
                       from |-> Len(a.st.log), instances |-> Len(a.st.instances),
                       kind |-> "", val |-> NilValue])
          [] OTHER -> Res(a.st, "TypeError", NilValue)))

\* the loop of visit_call over the argument expressions, left to right
visit_arguments(st, arguments, args) ==
    IF arguments = << >> THEN Res(st, "Ok", args)
    ELSE Try(visit_expr(st, Head(arguments)), LAMBDA r :
             visit_arguments(r.st, Tail(arguments), Append(args, r.val)))

\* LoxClass::find_method (called at tree_walker.rs:561): the class's own
\* methods, then the superclass chain
RECURSIVE find_method(_, _)
find_method(class, name) ==
    IF ContainsKey(class.methods, name) THEN class.methods[name]
    ELSE IF class.superclass.t = "Class" THEN find_method(class.superclass, name)
    ELSE None

\* TreeWalker::visit_super.  locals.get(&expr.keyword.id).unwrap() panics when
\* the resolver recorded no depth for the keyword, and so does the usize
\* subtraction `*distance - 1` at distance 0; the event records whether the
\* keyword had a depth.
visit_super(st, expr) ==
    IF ~ContainsKey(locals, expr.keyword.id)
    THEN Res(Emit(st, [ev |-> "super", id |-> expr.keyword.id, resolved |-> FALSE]),
             "Panic", NilValue)
    ELSE
    Let(Emit(st, [ev |-> "super", id |-> expr.keyword.id, resolved |-> TRUE]), LAMBDA st1 :
    Let(get_at(st1.envs, st1.environment, "super", locals[expr.keyword.id]), LAMBDA sup :
        IF sup.kind # "Ok" THEN Res(st1, sup.kind, sup.val)
        ELSE IF sup.val.t # "Class" THEN Res(st1, "TypeError", NilValue)
        ELSE IF locals[expr.keyword.id] = 0 THEN Res(st1, "Panic", NilValue)
        ELSE
        Let(get_at(st1.envs, st1.environment, "this", locals[expr.keyword.id] - 1),
            LAMBDA instance :
            IF instance.kind # "Ok" THEN Res(st1, instance.kind, instance.val)
            ELSE IF instance.val.t # "Instance" THEN Res(st1, "RuntimeError", NilValue)
            ELSE
            Let(find_method(sup.val, expr.method.lexeme), LAMBDA method :
                IF method.t = "None" THEN Res(st1, "AttributeError", NilValue)
                ELSE Let(bind(st1, method, instance.val.i), LAMBDA b :
                         Res(b.st, "Ok", b.fn))))))

\* TreeWalker::visit_get
visit_get(st, expr) ==
    Try(visit_expr(st, expr.object), LAMBDA o :
    Let(IF o.val.t = "Instance"
        THEN LoxInstance_get(o.st, o.val.i, expr.name.lexeme)
        ELSE Res(o.st, "AttributeError", NilValue), LAMBDA r :
        Res(Emit(r.st, [ev |-> "get", object |-> o.val, name |-> expr.name.lexeme,
                        before |-> Snap(o.st), after |-> Snap(r.st),
                        kind |-> r.kind, val |-> r.val]), r.kind, r.val)))

\* TreeWalker::visit_set
visit_set(st, expr) ==
    Try(visit_expr(st, expr.object), LAMBDA o :
        IF o.val.t = "Instance"
        THEN Try(visit_expr(o.st, expr.value), LAMBDA v :
                 Res(LoxInstance_set(v.st, o.val.i, expr.name.lexeme, v.val), "Ok", v.val))
        ELSE Res(o.st, "AttributeError", NilValue))

\* TreeWalker::visit_expr; evals counts the expressions visited
visit_expr(st, expr) ==
    CASE expr.e = "Binary" -> visit_binary(Visited(st), expr)
      [] expr.e = "Unary" -> visit_unary(Visited(st), expr)
      [] expr.e = "Literal" -> visit_literal(Visited(st), expr)
      [] expr.e = "Grouping" -> visit_expr(Visited(st), expr.expr)
      [] expr.e = "Variable" -> visit_variable(Visited(st), expr)
      [] expr.e = "Assignment" -> visit_assignment(Visited(st), expr)
      [] expr.e = "Logical" -> visit_logical(Visited(st), expr)
      [] expr.e = "Call" -> visit_call(Visited(st), expr)
      [] expr.e = "Get" -> visit_get(Visited(st), expr)
      [] expr.e = "Set" -> visit_set(Visited(st), expr)
      [] expr.e = "This" -> visit_this(Visited(st), expr)
      [] expr.e = "Super" -> visit_super(Visited(st), expr)

(***************************************************************************)
(* Statements (tree_walker.rs) and function calls (callable.rs).           *)
(***************************************************************************)
\* TreeWalker::visit_print_statement with Recorder::output_value
visit_print_statement(st, stmt) ==
    Try(visit_expr(st, stmt.value), LAMBDA v :
        Res(Emit([v.st EXCEPT !.outputted = Append(@, DisplayIn(v.st.instances, v.val))],
                 [ev |-> "print", value |-> v.val, instances |-> v.st.instances]),
            "Ok", NilValue))

\* an expression statement that passes its value to the sink, as a prompt
\* that echoes would
visit_expression_statement_echoing(st, stmt) ==
    Try(visit_expr(st, stmt.expression), LAMBDA v :
        Res([v.st EXCEPT !.outputted = Append(@, DisplayIn(v.st.instances, v.val))],
            "Ok", NilValue))

\* TreeWalker::visit_expression_statement
visit_expression_statement(st, stmt) ==
    Try(visit_expr(st, stmt.expression), LAMBDA v : Res(v.st, "Ok", NilValue))

\* TreeWalker::visit_var_decl_statement; initializing lists the declarations
\* whose initializer is being evaluated
visit_var_decl_statement(st, stmt) ==
    IF stmt.initializer.e = "None"
    THEN Res(define(st, stmt.token.lexeme, NilValue), "Ok", NilValue)
    ELSE Try(visit_expr([st EXCEPT !.initializing =
                            Append(@, <<st.environment, stmt.token.lexeme>>)],
                        stmt.initializer), LAMBDA v :
             Res(define([v.st EXCEPT !.initializing = st.initializing],
                        stmt.token.lexeme, v.val), "Ok", NilValue))

\* TreeWalker::execute_block
execute_block(st, stmts, env) ==
    execute_statements([st EXCEPT !.environment = env], stmts, env, st.environment)

\* the record of one execute_block that returned: the environment that was
\* current when it was entered, the one it was given, the one its statements
\* left, the one it returned with
BlockEvent(st, env, previous_env, restored, kind) ==
    [ev |-> "block", entry |-> previous_env, env |-> env, left |-> st.environment,
     exit |-> restored, kind |-> kind, nested |-> st.frames # << >>]

\* the loop of execute_block that restores no environment when a statement
\* returns an Err
execute_statements_leaking(st, stmts, env, previous_env) ==
    IF stmts = << >>
    THEN Res(Emit([st EXCEPT !.environment = previous_env],
                  BlockEvent(st, env, previous_env, previous_env, "Ok")),
             "Ok", NilValue)
    ELSE Let(visit_statement(st, Head(stmts)), LAMBDA r :
             IF r.kind = "Ok" THEN execute_statements(r.st, Tail(stmts), env, previous_env)
             ELSE IF r.kind \in {"Panic", "Fuel"} THEN r
             ELSE Res(Emit(r.st, BlockEvent(r.st, env, previous_env, r.st.environment,
                                            r.kind)),
                      r.kind, r.val))

\* the loop of execute_block: the first Err restores the environment and returns
execute_statements(st, stmts, env, previous_env) ==
    IF stmts = << >>
    THEN Res(Emit([st EXCEPT !.environment = previous_env],
                  BlockEvent(st, env, previous_env, previous_env, "Ok")),
             "Ok", NilValue)
    ELSE Let(visit_statement(st, Head(stmts)), LAMBDA r :
             IF r.kind = "Ok" THEN execute_statements(r.st, Tail(stmts), env, previous_env)
             ELSE IF r.kind \in {"Panic", "Fuel"} THEN r
             ELSE Res(Emit([r.st EXCEPT !.environment = previous_env],
                           BlockEvent(r.st, env, previous_env, previous_env, r.kind)),
                      r.kind, r.val))

\* TreeWalker::visit_block_statement
visit_block_statement(st, stmt) ==
    execute_block([st EXCEPT !.envs = Append(@, Environment(EmptyMap, st.environment))],
                  stmt.statements, Len(st.envs) + 1)

\* TreeWalker::visit_if_statement
visit_if_statement(st, stmt) ==
    Try(visit_expr(st, stmt.condition), LAMBDA c :
        IF is_truthy(c.val) THEN visit_statement(c.st, stmt.then_branch)
        ELSE IF stmt.else_branch.s # "None" THEN visit_statement(c.st, stmt.else_branch)
        ELSE Res(c.st, "Ok", NilValue))

\* TreeWalker::visit_while_statement
visit_while_statement(st, stmt) ==
    Try(visit_expr(st, stmt.condition), LAMBDA c :
        IF ~is_truthy(c.val) THEN Res(c.st, "Ok", NilValue)
        ELSE IF c.st.fuel = 0 THEN Res(c.st, "Fuel", NilValue)
        ELSE Try(visit_statement([c.st EXCEPT !.fuel = @ - 1], stmt.body), LAMBDA b :
                 visit_while_statement(b.st, stmt)))

\* TreeWalker::visit_fun_decl_statement
visit_fun_decl_statement(st, stmt) ==
    Res(define(st, stmt.name.lexeme, Function(stmt, st.environment, FALSE)),
        "Ok", NilValue)

\* TreeWalker::visit_return_statement
visit_return_statement(st, stmt) ==
    IF stmt.value.e = "None" THEN Res(st, "Return", NilValue)
    ELSE Try(visit_expr(st, stmt.value), LAMBDA v : Res(v.st, "Return", v.val))

\* the map visit_class_decl_statement builds by inserting the methods in order
MethodMap(methods, closure) ==
    [n \in {methods[k].name.lexeme : k \in 1..Len(methods)} |->
        LET k == CHOOSE k \in 1..Len(methods) :
                    /\ methods[k].name.lexeme = n
                    /\ \A j \in 1..Len(methods) : methods[j].name.lexeme = n => j <= k
        IN Function(methods[k], closure, n = "init")]

\* a class declaration that stays in the environment of `super`
class_with_superclass_staying(st, stmt, superclass) ==
    LET st1 == [st EXCEPT !.envs = Append(@, Environment(
                              Insert(EmptyMap, "super", superclass), st.environment)),
                          !.environment = Len(st.envs) + 1]
        class == LoxClass(stmt.name.lexeme,
                          MethodMap(stmt.methods, st1.environment), superclass)
    IN define(st1, stmt.name.lexeme, class)

\* TreeWalker::visit_class_decl_statement with a superclass: the methods
\* close over a new environment that defines `super`, which is left again
\* before the class is defined
class_with_superclass(st, stmt, superclass) ==
    LET st1 == [st EXCEPT !.envs = Append(@, Environment(
                              Insert(EmptyMap, "super", superclass), st.environment)),
                          !.environment = Len(st.envs) + 1]
        class == LoxClass(stmt.name.lexeme,
                          MethodMap(stmt.methods, st1.environment), superclass)
    IN define([st1 EXCEPT !.environment = st1.envs[st1.environment].parent],
              stmt.name.lexeme, class)

\* TreeWalker::visit_class_decl_statement
visit_class_decl_statement(st, stmt) ==
    IF stmt.superclass.e = "None"
    THEN Res(define(st, stmt.name.lexeme,
                    LoxClass(stmt.name.lexeme, MethodMap(stmt.methods, st.environment),
                             None)),
             "Ok", NilValue)
    ELSE Try(visit_variable(st, stmt.superclass), LAMBDA sup :
             IF sup.val.t # "Class" THEN Res(sup.st, "TypeError", NilValue)
             ELSE Res(class_with_superclass(sup.st, stmt, sup.val), "Ok", NilValue))

\* TreeWalker::visit_statement
visit_statement(st, stmt) ==
    CASE stmt.s = "Print" -> visit_print_statement(st, stmt)
      [] stmt.s = "Expression" -> visit_expression_statement(st, stmt)
      [] stmt.s = "VarDecl" -> visit_var_decl_statement(st, stmt)
      [] stmt.s = "Block" -> visit_block_statement(st, stmt)
      [] stmt.s = "If" -> visit_if_statement(st, stmt)
      [] stmt.s = "While" -> visit_while_statement(st, stmt)
      [] stmt.s = "FunDecl" -> visit_fun_decl_statement(st, stmt)
      [] stmt.s = "Return" -> visit_return_statement(st, stmt)
      [] stmt.s = "ClassDecl" -> visit_class_decl_statement(st, stmt)

\* the match of Function::call on the result of execute_block
call_result(st, f, b) ==
    CASE b.kind = "Ok" ->
           IF f.is_initializer
           THEN Let(get_at(st.envs, f.closure, "this", 0), LAMBDA t :
                    Res(st, t.kind, t.val))
           ELSE Res(st, "Ok", NilValue)
      [] b.kind = "Return" -> Res(st, "Ok", b.val)
      [] OTHER -> Res(st, b.kind, b.val)

\* impl LoxCallable for Function: call; frames lists the closures of the
\* calls that are running
Function_call(st, f, arguments) ==
    IF st.fuel = 0 THEN Res(st, "Fuel", NilValue) ELSE
    Let(execute_block(
            [st EXCEPT !.envs = Append(@, Environment(
                                   ParamValues(f.declaration.parameters, arguments),
                                   f.closure)),
                       !.fuel = @ - 1,
                       !.frames = Append(@, f.closure)],
            f.declaration.body, Len(st.envs) + 1), LAMBDA b :
        Called(call_result([b.st EXCEPT !.frames = SubSeq(@, 1, Len(@) - 1)], f, b),
               [ev |-> "call", function |-> f, arguments |-> arguments,
                env |-> Len(st.envs) + 1, exit |-> b.kind,
                kind |-> "", val |-> NilValue]))

(***************************************************************************)
(* The resolver (resolver.rs).  `rs` is the Resolver record: scopes is the *)
(* stack Vec<HashMap<String, bool>>, errors the list of ResolvingErrors,   *)
(* locals the interpreter's depth table it writes through resolve().       *)
(***************************************************************************)
RECURSIVE resolve_statement(_, _)
RECURSIVE resolve_expression(_, _)
RECURSIVE resolve_statements(_, _)
RECURSIVE resolve_expressions(_, _)
RECURSIVE resolve_methods(_, _)
RECURSIVE declare_parameters(_, _)

\* Resolver::new
Resolver(interpreter_locals) ==
    [scopes |-> << >>, errors |-> << >>, locals |-> interpreter_locals,
     current_function |-> "None", current_class |-> "None"]

ResolvingError(rs) == [rs EXCEPT !.errors = Append(@, "ResolvingError")]

\* Resolver::begin_scope
begin_scope(rs) == [rs EXCEPT !.scopes = Append(@, EmptyMap)]

\* Resolver::end_scope
end_scope(rs) == [rs EXCEPT !.scopes = SubSeq(@, 1, Len(@) - 1)]

\* Resolver::declare
declare(rs, name) ==
    IF rs.scopes = << >> THEN rs
    ELSE LET top == Len(rs.scopes)
             rs1 == IF ContainsKey(rs.scopes[top], name) THEN ResolvingError(rs) ELSE rs
         IN [rs1 EXCEPT !.scopes[top] = Insert(@, name, FALSE)]

\* Resolver::define
resolver_define(rs, name) ==
    IF rs.scopes = << >> THEN rs
    ELSE [rs EXCEPT !.scopes[Len(rs.scopes)] = Insert(@, name, TRUE)]

\* resolve_local without the rev(): the index counts from the outermost scope
resolve_local_unreversed(rs, token) ==
    LET hits == {index \in 0..(Len(rs.scopes) - 1) :
                    ContainsKey(rs.scopes[index + 1], token.lexeme)}
    IN IF hits = {} THEN rs
       ELSE LET index == CHOOSE i \in hits : \A j \in hits : i <= j IN
            [rs EXCEPT !.locals = Insert(@, token.id, index)]

\* Resolver::resolve_local with TreeWalker::resolve
resolve_local(rs, token) ==
    LET hits == {index \in 0..(Len(rs.scopes) - 1) :
                    ContainsKey(rs.scopes[Len(rs.scopes) - index], token.lexeme)}
    IN IF hits = {} THEN rs
       ELSE LET index == CHOOSE i \in hits : \A j \in hits : i <= j IN
            [rs EXCEPT !.locals = Insert(@, token.id, index)]

\* the loop of resolve_function over the parameters
declare_parameters(rs, parameters) ==
    IF parameters = << >> THEN rs
    ELSE declare_parameters(
            resolver_define(declare(rs, Head(parameters).lexeme), Head(parameters).lexeme),
            Tail(parameters))

\* Resolver::resolve_function
resolve_function(rs, stmt, fun_type) ==
    LET enclosing_function == rs.current_function
        rs1 == begin_scope([rs EXCEPT !.current_function = fun_type])
        rs2 == declare_parameters(rs1, stmt.parameters)
        rs3 == resolve_statements(rs2, stmt.body)
    IN [end_scope(rs3) EXCEPT !.current_function = enclosing_function]

\* Resolver::visit_block_statement
resolver_visit_block_statement(rs, block) ==
    end_scope(resolve_statements(begin_scope(rs), block.statements))

\* Resolver::visit_var_decl_statement
resolver_visit_var_decl_statement(rs, stmt) ==
    LET rs1 == declare(rs, stmt.token.lexeme)
        rs2 == IF stmt.initializer.e = "None" THEN rs1
               ELSE resolve_expression(rs1, stmt.initializer)
    IN resolver_define(rs2, stmt.token.lexeme)

\* Resolver::visit_variable
resolver_visit_variable(rs, expr) ==
    LET top == Len(rs.scopes)
        rs1 == IF /\ top > 0
                  /\ ContainsKey(rs.scopes[top], expr.token.lexeme)
                  /\ ~rs.scopes[top][expr.token.lexeme]
               THEN ResolvingError(rs) ELSE rs
    IN resolve_local(rs1, expr.token)

\* Resolver::visit_assignment
resolver_visit_assignment(rs, expr) ==
    resolve_local(resolve_expression(rs, expr.value), expr.token)

\* Resolver::visit_fun_decl_statement
resolver_visit_fun_decl_statement(rs, stmt) ==
    resolve_function(resolver_define(declare(rs, stmt.name.lexeme), stmt.name.lexeme),
                     stmt, "Function")

\* Resolver::visit_if_statement
resolver_visit_if_statement(rs, stmt) ==
    IF stmt.else_branch.s = "None"
    THEN resolve_statement(resolve_expression(rs, stmt.condition), stmt.then_branch)
    ELSE resolve_statement(
            resolve_statement(resolve_expression(rs, stmt.condition), stmt.then_branch),
            stmt.else_branch)

\* visit_return_statement without its test of current_function
resolver_visit_return_statement_unchecked(rs, stmt) ==
    IF stmt.value.e = "None" THEN rs ELSE resolve_expression(rs, stmt.value)

\* Resolver::visit_return_statement
resolver_visit_return_statement(rs, stmt) ==
    LET rs1 == IF rs.current_function = "None" THEN ResolvingError(rs) ELSE rs
    IN IF stmt.value.e = "None" THEN rs1 ELSE resolve_expression(rs1, stmt.value)

\* Resolver::visit_while_statement
resolver_visit_while_statement(rs, stmt) ==
    resolve_statement(resolve_expression(rs, stmt.condition), stmt.body)

\* the loop of visit_class_decl_statement over the methods
resolve_methods(rs, methods) ==
    IF methods = << >> THEN rs
    ELSE resolve_methods(resolve_function(rs, Head(methods), "Method"), Tail(methods))

\* Resolver::visit_class_decl_statement
resolver_visit_class_decl_statement(rs, stmt) ==
    LET enclosing_class_type == rs.current_class
        rs1 == resolver_define(declare([rs EXCEPT !.current_class = "Class"],
                                       stmt.name.lexeme), stmt.name.lexeme)
        rs2 == begin_scope(rs1)
        rs3 == [rs2 EXCEPT !.scopes[Len(rs2.scopes)] = Insert(@, "this", TRUE)]
        rs4 == resolve_methods(rs3, stmt.methods)
    IN [end_scope(rs4) EXCEPT !.current_class = enclosing_class_type]

\* Resolver::visit_this
resolver_visit_this(rs, expr) ==
    IF rs.current_class = "Class" THEN resolve_local(rs, expr.keyword)
    ELSE ResolvingError(rs)

\* Resolver::resolve_statement
resolve_statement(rs, statement) ==
    CASE statement.s = "Expression" -> resolve_expression(rs, statement.expression)
      [] statement.s = "Print" -> resolve_expression(rs, statement.value)
      [] statement.s = "VarDecl" -> resolver_visit_var_decl_statement(rs, statement)
      [] statement.s = "Block" -> resolver_visit_block_statement(rs, statement)
      [] statement.s = "If" -> resolver_visit_if_statement(rs, statement)
      [] statement.s = "While" -> resolver_visit_while_statement(rs, statement)
      [] statement.s = "FunDecl" -> resolver_visit_fun_decl_statement(rs, statement)
      [] statement.s = "Return" -> resolver_visit_return_statement(rs, statement)
      [] statement.s = "ClassDecl" -> resolver_visit_class_decl_statement(rs, statement)

\* Resolver::resolve_expression
resolve_expression(rs, expression) ==
    CASE expression.e = "Binary" ->
            resolve_expression(resolve_expression(rs, expression.left), expression.right)
      [] expression.e = "Unary" -> resolve_expression(rs, expression.right)
      [] expression.e = "Literal" -> rs
      [] expression.e = "Grouping" -> resolve_expression(rs, expression.expr)
      [] expression.e = "Variable" -> resolver_visit_variable(rs, expression)
      [] expression.e = "Assignment" -> resolver_visit_assignment(rs, expression)
      [] expression.e = "Logical" ->
            resolve_expression(resolve_expression(rs, expression.left), expression.right)
      [] expression.e = "Call" ->
            resolve_expressions(resolve_expression(rs, expression.callee),
                                expression.arguments)
      [] expression.e = "Get" -> resolve_expression(rs, expression.object)
      [] expression.e = "Set" ->
            resolve_expression(resolve_expression(rs, expression.value), expression.object)
      [] expression.e = "This" -> resolver_visit_this(rs, expression)
      \* the match has no arm for Expr::Super and the Resolver no method for it:
      \* nothing is resolved, recorded or reported for a Super node
      [] expression.e = "Super" -> rs

\* the loop of Resolver::visit_call over the arguments
resolve_expressions(rs, exprs) ==
    IF exprs = << >> THEN rs
    ELSE resolve_expressions(resolve_expression(rs, Head(exprs)), Tail(exprs))

\* Resolver::resolve
resolve_statements(rs, stmts) ==
    IF stmts = << >> THEN rs
    ELSE resolve_statements(resolve_statement(rs, Head(stmts)), Tail(stmts))

(***************************************************************************)
(* Syntax trees (ast.rs), as parse.rs builds them.                         *)
(***************************************************************************)
Literal(value) == [e |-> "Literal", value |-> value]

Num(n) == Literal(NumberValue(n))

Str(s) == Literal(StringValue(s))

Bool(b) == Literal(BooleanValue(b))

Nil == Literal(NilValue)

Variable(id, name) == [e |-> "Variable", token |-> Tok(id, name)]

Assignment(id, name, value) == [e |-> "Assignment", token |-> Tok(id, name), value |-> value]

Unary(operator, right) == [e |-> "Unary", operator |-> operator, right |-> right]

Binary(left, operator, right) ==
    [e |-> "Binary", operator |-> operator, left |-> left, right |-> right]

Logical(left, operator, right) ==
    [e |-> "Logical", operator |-> operator, left |-> left, right |-> right]

Grouping(expr) == [e |-> "Grouping", expr |-> expr]

Call(callee, arguments) == [e |-> "Call", callee |-> callee, arguments |-> arguments]

Get(object, id, name) == [e |-> "Get", object |-> object, name |-> Tok(id, name)]

Set(object, id, name, value) ==
    [e |-> "Set", object |-> object, name |-> Tok(id, name), value |-> value]

This(id) == [e |-> "This", keyword |-> Tok(id, "this")]

Super(id, mid, method) ==
    [e |-> "Super", keyword |-> Tok(id, "super"), method |-> Tok(mid, method)]

ExpressionStatement(expression) == [s |-> "Expression", expression |-> expression]

PrintStatement(value) == [s |-> "Print", value |-> value]

VarDeclStatement(id, name, initializer) ==
    [s |-> "VarDecl", token |-> Tok(id, name), initializer |-> initializer]

BlockStatement(stmts) == [s |-> "Block", statements |-> stmts]

IfStatement(condition, then_branch, else_branch) ==
    [s |-> "If", condition |-> condition, then_branch |-> then_branch,
     else_branch |-> else_branch]

WhileStatement(condition, body) == [s |-> "While", condition |-> condition, body |-> body]

FunDeclStatement(id, name, parameters, body) ==
    [s |-> "FunDecl", name |-> Tok(id, name), parameters |-> parameters, body |-> body]

ReturnStatement(value) == [s |-> "Return", value |-> value]

ClassDeclStatement(id, name, superclass, methods) ==
    [s |-> "ClassDecl", name |-> Tok(id, name), superclass |-> superclass,
     methods |-> methods]

(***************************************************************************)
(* The inputs: each is the statement list the parser yields for one input  *)
(* text (shown above it).  Token ids are unique over all inputs, as the    *)
(* scanner's id counter makes them.                                        *)
(***************************************************************************)
\* var a = "global"; { fun show() { print a; } show(); var a = "local"; show(); }
Scoping ==
    << VarDeclStatement(101, "a", Str("global")),
       BlockStatement(<<
          FunDeclStatement(102, "show", << >>, << PrintStatement(Variable(103, "a")) >>),
          ExpressionStatement(Call(Variable(104, "show"), << >>)),
          VarDeclStatement(105, "a", Str("local")),
          ExpressionStatement(Call(Variable(106, "show"), << >>)) >>) >>

\* fun makeCounter() { var i = 0; fun count() { i = i + 1; return i; } return count; }
\* var c = makeCounter(); print c(); print c();
Closure ==
    << FunDeclStatement(201, "makeCounter", << >>, <<
          VarDeclStatement(202, "i", Num(0)),
          FunDeclStatement(203, "count", << >>, <<
             ExpressionStatement(Assignment(204, "i",
                Binary(Variable(205, "i"), "Plus", Num(1)))),
             ReturnStatement(Variable(206, "i")) >>),
          ReturnStatement(Variable(207, "count")) >>),
       VarDeclStatement(208, "c", Call(Variable(209, "makeCounter"), << >>)),
       PrintStatement(Call(Variable(210, "c"), << >>)),
       PrintStatement(Call(Variable(211, "c"), << >>)) >>

\* { var x = 1; { x = 2; } print x; }  fun f(p) { p = 5; return p; }  print f(1);
AssignLocal ==
    << BlockStatement(<<
          VarDeclStatement(301, "x", Num(1)),
          BlockStatement(<< ExpressionStatement(Assignment(302, "x", Num(2))) >>),
          PrintStatement(Variable(303, "x")) >>),
       FunDeclStatement(304, "f", << Tok(305, "p") >>, <<
          ExpressionStatement(Assignment(306, "p", Num(5))),
          ReturnStatement(Variable(307, "p")) >>),
       PrintStatement(Call(Variable(308, "f"), << Num(1) >>)) >>

\* { var y = 1; y = 2; print y; }
AssignSameScope ==
    << BlockStatement(<<
          VarDeclStatement(351, "y", Num(1)),
          ExpressionStatement(Assignment(352, "y", Num(2))),
          PrintStatement(Variable(353, "y")) >>) >>

\* class K {}  print !true; print !nil; print !0; print !""; print !clock;
\* print !K; print !K(); print !false;
Bang ==
    << ClassDeclStatement(401, "K", None, << >>),
       PrintStatement(Unary("Bang", Bool(TRUE))),
       PrintStatement(Unary("Bang", Nil)),
       PrintStatement(Unary("Bang", Num(0))),
       PrintStatement(Unary("Bang", Str(""))),
       PrintStatement(Unary("Bang", Variable(402, "clock"))),
       PrintStatement(Unary("Bang", Variable(403, "K"))),
       PrintStatement(Unary("Bang", Call(Variable(404, "K"), << >>))),
       PrintStatement(Unary("Bang", Bool(FALSE))) >>

\* print nil or "x"; print true and 3; print 1 or 2; print nil and 1;
\* print false or nil; print "a" and "";
LogicalValues ==
    << PrintStatement(Logical(Nil, "Or", Str("x"))),
       PrintStatement(Logical(Bool(TRUE), "And", Num(3))),
       PrintStatement(Logical(Num(1), "Or", Num(2))),
       PrintStatement(Logical(Nil, "And", Num(1))),
       PrintStatement(Logical(Bool(FALSE), "Or", Nil)),
       PrintStatement(Logical(Str("a"), "And", Str(""))) >>

\* var s = 0; class O {} var o = O(); fun eff() { print "side"; return true; }
\* false and (s = 1); true or eff(); nil and (o.f = 1); "t" or (s = 2);
\* true and eff(); false or (s = 3); print s;
ShortCircuit ==
    << VarDeclStatement(501, "s", Num(0)),
       ClassDeclStatement(502, "O", None, << >>),
       VarDeclStatement(503, "o", Call(Variable(504, "O"), << >>)),
       FunDeclStatement(505, "eff", << >>, <<
          PrintStatement(Str("side")), ReturnStatement(Bool(TRUE)) >>),
       ExpressionStatement(Logical(Bool(FALSE), "And",
          Grouping(Assignment(506, "s", Num(1))))),
       ExpressionStatement(Logical(Bool(TRUE), "Or", Call(Variable(507, "eff"), << >>))),
       ExpressionStatement(Logical(Nil, "And",
          Grouping(Set(Variable(508, "o"), 509, "f", Num(1))))),
       ExpressionStatement(Logical(Str("t"), "Or",
          Grouping(Assignment(510, "s", Num(2))))),
       ExpressionStatement(Logical(Bool(TRUE), "And", Call(Variable(511, "eff"), << >>))),
       ExpressionStatement(Logical(Bool(FALSE), "Or",
          Grouping(Assignment(512, "s", Num(3))))),
       PrintStatement(Variable(513, "s")) >>

\* class C { init(x) { this.x = x; return; } }  class D { init() { this.y = 1; } }
\* class E { init() { return 5; } }
\* var c = C(7); print c.init(8); var d = D(); print d.init(); print E().init();
Initializers ==
    << ClassDeclStatement(601, "C", None, <<
          FunDeclStatement(602, "init", << Tok(603, "x") >>, <<
             ExpressionStatement(Set(This(604), 605, "x", Variable(606, "x"))),
             ReturnStatement(None) >>) >>),
       ClassDeclStatement(607, "D", None, <<
          FunDeclStatement(608, "init", << >>, <<
             ExpressionStatement(Set(This(609), 610, "y", Num(1))) >>) >>),
       ClassDeclStatement(611, "E", None, <<
          FunDeclStatement(612, "init", << >>, << ReturnStatement(Num(5)) >>) >>),
       VarDeclStatement(613, "c", Call(Variable(614, "C"), << Num(7) >>)),
       PrintStatement(Call(Get(Variable(615, "c"), 616, "init"), << Num(8) >>)),
       VarDeclStatement(617, "d", Call(Variable(618, "D"), << >>)),
       PrintStatement(Call(Get(Variable(619, "d"), 620, "init"), << >>)),
       PrintStatement(Call(Get(Call(Variable(621, "E"), << >>), 622, "init"), << >>)) >>

\* class A { init(x) { this.x = x; } foo() { return "A.foo"; } }
\* class B < A { bar() { return "B.bar"; } }
\* var b = B(); print b.bar(); print "s".len;
Inherit ==
    << ClassDeclStatement(701, "A", None, <<
          FunDeclStatement(702, "init", << Tok(703, "x") >>, <<
             ExpressionStatement(Set(This(704), 705, "x", Variable(706, "x"))) >>),
          FunDeclStatement(707, "foo", << >>, << ReturnStatement(Str("A.foo")) >>) >>),
       ClassDeclStatement(708, "B", Variable(709, "A"), <<
          FunDeclStatement(710, "bar", << >>, << ReturnStatement(Str("B.bar")) >>) >>),
       VarDeclStatement(711, "b", Call(Variable(712, "B"), << >>)),
       PrintStatement(Call(Get(Variable(713, "b"), 714, "bar"), << >>)),
       PrintStatement(Get(Str("s"), 715, "len")) >>

\* b.bar = 1; print b.bar; print b.foo();
InheritedGet ==
    << ExpressionStatement(Set(Variable(721, "b"), 722, "bar", Num(1))),
       PrintStatement(Get(Variable(723, "b"), 724, "bar")),
       PrintStatement(Call(Get(Variable(725, "b"), 726, "foo"), << >>)) >>

\* print A(1).x; print B(1);
InheritedInit ==
    << PrintStatement(Get(Call(Variable(731, "A"), << Num(1) >>), 732, "x")),
       PrintStatement(Call(Variable(733, "B"), << Num(1) >>)) >>

\* print b.nope;
MissingAttribute ==
    << PrintStatement(Get(Variable(741, "b"), 742, "nope")) >>

\* class P { init(n) { this.n = n; } get() { return this.n; } }
\* var p = P(1); var q = P(2); var m = p.get; var k = q.get; print m(); print k();
BoundMethods ==
    << ClassDeclStatement(801, "P", None, <<
          FunDeclStatement(802, "init", << Tok(803, "n") >>, <<
             ExpressionStatement(Set(This(804), 805, "n", Variable(806, "n"))) >>),
          FunDeclStatement(807, "get", << >>, <<
             ReturnStatement(Get(This(808), 809, "n")) >>) >>),
       VarDeclStatement(810, "p", Call(Variable(811, "P"), << Num(1) >>)),
       VarDeclStatement(812, "q", Call(Variable(813, "P"), << Num(2) >>)),
       VarDeclStatement(814, "m", Get(Variable(815, "p"), 816, "get")),
       VarDeclStatement(817, "k", Get(Variable(818, "q"), 819, "get")),
       PrintStatement(Call(Variable(820, "m"), << >>)),
       PrintStatement(Call(Variable(821, "k"), << >>)) >>

\* { class T { me() { fun g() { return this; } return g(); } } print T().me(); }
NestedThis ==
    << BlockStatement(<<
          ClassDeclStatement(901, "T", None, <<
             FunDeclStatement(902, "me", << >>, <<
                FunDeclStatement(903, "g", << >>, << ReturnStatement(This(904)) >>),
                ReturnStatement(Call(Variable(905, "g"), << >>)) >>) >>),
          PrintStatement(Call(Get(Call(Variable(906, "T"), << >>), 907, "me"), << >>)) >>) >>

\* { var a = (a = 1); print a; }
OwnInitializer ==
    << BlockStatement(<<
          VarDeclStatement(1001, "a", Grouping(Assignment(1002, "a", Num(1)))),
          PrintStatement(Variable(1003, "a")) >>) >>

\* var i = 1; while (i < 3) { print -i; i = i + 1; } if (i == 3) print clock() > 0;
\* else print clock; u = 1;
Loop ==
    << VarDeclStatement(1101, "i", Num(1)),
       WhileStatement(Binary(Variable(1102, "i"), "Less", Num(3)),
          BlockStatement(<<
             PrintStatement(Unary("Minus", Variable(1103, "i"))),
             ExpressionStatement(Assignment(1104, "i",
                Binary(Variable(1105, "i"), "Plus", Num(1)))) >>)),
       IfStatement(Binary(Variable(1106, "i"), "EqualEqual", Num(3)),
          PrintStatement(Binary(Call(Variable(1107, "clock"), << >>), "Greater", Num(0))),
          PrintStatement(Variable(1108, "clock"))),
       ExpressionStatement(Assignment(1109, "u", Num(1))) >>

\* return 1;
TopLevelReturn == << ReturnStatement(Num(1)) >>

\* { var r = r; }  print this;
BadNames ==
    << BlockStatement(<< VarDeclStatement(1201, "r", Variable(1202, "r")) >>),
       PrintStatement(This(1203)) >>

\* class C < C {}
SelfInherit == << ClassDeclStatement(1301, "C", Variable(1302, "C"), << >>) >>

\* print super.foo;
SuperOutside == << PrintStatement(Super(1401, 1402, "foo")) >>

\* class P { foo() { return 1; } }  class Q < P { foo() { return super.foo(); } }
\* print Q().foo();
SuperInside ==
    << ClassDeclStatement(1501, "P", None, <<
          FunDeclStatement(1502, "foo", << >>, << ReturnStatement(Num(1)) >>) >>),
       ClassDeclStatement(1503, "Q", Variable(1504, "P"), <<
          FunDeclStatement(1505, "foo", << >>, <<
             ReturnStatement(Call(Super(1506, 1507, "foo"), << >>)) >>) >>),
       PrintStatement(Call(Get(Call(Variable(1508, "Q"), << >>), 1509, "foo"), << >>)) >>

\* { fun f() { { } { return 1; } } print f(); { print -nil; } } print 2;
BlockExits ==
    << BlockStatement(<<
          FunDeclStatement(1601, "f", << >>, <<
             BlockStatement(<< >>),
             BlockStatement(<< ReturnStatement(Num(1)) >>) >>),
          PrintStatement(Call(Variable(1602, "f"), << >>)),
          BlockStatement(<< PrintStatement(Unary("Minus", Nil)) >>) >>),
       PrintStatement(Num(2)) >>

\* class A {}
\* { var x = 1;  class B < A { m() { x = 2; return x; } }
\*   print B().m();  print x; }
SubclassLocal ==
    << ClassDeclStatement(1702, "A", None, << >>),
       BlockStatement(<<
          VarDeclStatement(1701, "x", Num(1)),
          ClassDeclStatement(1703, "B", Variable(1704, "A"), <<
             FunDeclStatement(1705, "m", << >>, <<
                ExpressionStatement(Assignment(1706, "x", Num(2))),
                ReturnStatement(Variable(1707, "x")) >>) >>),
          PrintStatement(Call(Get(Call(Variable(1708, "B"), << >>), 1709, "m"), << >>)),
          PrintStatement(Variable(1710, "x")) >>) >>

\* var N = 1;  class D < N {}  print 3;
NotAClass ==
    << VarDeclStatement(1801, "N", Num(1)),
       ClassDeclStatement(1802, "D", Variable(1803, "N"), << >>),
       PrintStatement(Num(3)) >>

Pool == << Scoping, Closure, AssignLocal, AssignSameScope, Bang, LogicalValues,
           ShortCircuit, Initializers, Inherit, InheritedGet, InheritedInit,
           MissingAttribute, BoundMethods, NestedThis, OwnInitializer, Loop,
           TopLevelReturn, BadNames, SelfInherit, SuperOutside, SuperInside,
           BlockExits, SubclassLocal, NotAClass >>

(***************************************************************************)
(* The scanner (scan.rs).  A source String is the sequence of its chars,   *)
(* each a one-character string, and so is a lexeme; the sources of this    *)
(* model are ASCII, where a char is a byte and the byte ranges of           *)
(* &source[start..current] are char ranges.  `sc` is the Scanner record;   *)
(* the iterator `chars` has yielded the first sc.current chars of the      *)
(* source.                                                                 *)
(***************************************************************************)
\* Option<char>::None of chars.peek() and chars.next()
NoChar == ""

Digits == {"0", "1", "2", "3", "4", "5", "6", "7", "8", "9"}

\* char::is_alphabetic, on the letters the sources use
Alphabetic ==
    {"a", "b", "c", "d", "e", "f", "g", "h", "i", "j", "k", "l", "m", "n", "o", "p",
     "q", "r", "s", "t", "u", "v", "w", "x", "y", "z", "A", "B", "C", "P", "Q"}

\* char::is_alphanumeric
Alphanumeric == Alphabetic \cup Digits

\* Scanner::new
Scanner == [tokens |-> << >>, start |-> 0, current |-> 0, line |-> 1, next_id |-> 0]

\* struct Token
Token(token_type, lexeme, literal, line, id) ==
    [token_type |-> token_type, lexeme |-> lexeme, literal |-> literal,
     line |-> line, id |-> id]

\* chars.peek()
Peek(sc, src) == IF sc.current < Len(src) THEN src[sc.current + 1] ELSE NoChar

\* Scanner::advance
advance(sc) == [sc EXCEPT !.current = @ + 1]

\* Scanner::match_next: the scanner after it, advanced when the char matched
match_next(sc, src, expected) ==
    IF Peek(sc, src) = expected THEN advance(sc) ELSE sc

\* &source[self.start..self.current]
Lexeme(sc, src) == SubSeq(src, sc.start + 1, sc.current)

\* an add_token that leaves the id counter as it is
add_token_same_id(sc, token_type, lexeme, literal) ==
    [sc EXCEPT !.tokens = Append(@, Token(token_type, lexeme, literal, sc.line,
                                           sc.next_id))]

\* Scanner::add_token
add_token(sc, token_type, lexeme, literal) ==
    [sc EXCEPT !.tokens = Append(@, Token(token_type, lexeme, literal, sc.line,
                                           sc.next_id)),
               !.next_id = @ + 1]

\* Scanner::add_simple_token
add_simple_token(sc, src, token_type) ==
    add_token(sc, token_type, Lexeme(sc, src), None)

\* the outcome of scan_token: Ok(()), the Err, or "Diverge" for a loop that
\* has no way out
Scanned(sc, kind, message) == [sc |-> sc, kind |-> kind, message |-> message]

\* the loop of scan_token after `//` (scan.rs:75-83): at the end of the input
\* chars.peek() is None, the `if let` has no else branch, and the loop goes
\* round without a break
RECURSIVE comment_loop(_, _)
comment_loop(sc, src) ==
    IF Peek(sc, src) = NoChar THEN Scanned(sc, "Diverge", "")
    ELSE IF Peek(sc, src) = "\n" THEN Scanned(sc, "Ok", "")
    ELSE comment_loop(advance(sc), src)

\* the loop of Scanner::scan_string: the scanner after the closing quote, or
\* the Err of an unterminated string
RECURSIVE scan_string_loop(_, _)
scan_string_loop(sc, src) ==
    IF Peek(sc, src) = NoChar THEN Scanned(advance(sc), "ScannerError", "untermianted string ")
    ELSE IF Peek(sc, src) = "\"" THEN Scanned(advance(sc), "Ok", "")
    ELSE IF Peek(sc, src) = "\n"
    THEN scan_string_loop([advance(sc) EXCEPT !.line = @ + 1], src)
    ELSE scan_string_loop(advance(sc), src)

\* Scanner::scan_string
scan_string(sc, src) ==
    Let(scan_string_loop(sc, src), LAMBDA r :
        IF r.kind # "Ok" THEN r
        ELSE Scanned(add_token(r.sc, "String", Lexeme(r.sc, src),
                               StringValue(SubSeq(src, r.sc.start + 2, r.sc.current - 1))),
                     "Ok", ""))

\* the inner loop of scan_number: the digits after the `.`
RECURSIVE fraction_loop(_, _)
fraction_loop(sc, src) ==
    IF Peek(sc, src) \in Digits THEN fraction_loop(advance(sc), src) ELSE sc

\* the outer loop of scan_number (scan.rs:162-202): digits are consumed; a `.`
\* with a digit after it is consumed with the digits that follow, and the
\* loop goes on
RECURSIVE number_loop(_, _)
number_loop(sc, src) ==
    IF Peek(sc, src) \in Digits THEN number_loop(advance(sc), src)
    ELSE IF Peek(sc, src) = "." /\ Peek(advance(sc), src) \in Digits
    THEN number_loop(fraction_loop(advance(sc), src), src)
    ELSE sc

\* the value of a run of digits
RECURSIVE DigitsValue(_)
DigitsValue(digits) ==
    IF digits = << >> THEN 0
    ELSE 10 * DigitsValue(SubSeq(digits, 1, Len(digits) - 1))
         + (CHOOSE d \in 0..9 : ToString(d) = digits[Len(digits)])

\* a run of digits without its zeros at the end
RECURSIVE Significant(_)
Significant(digits) ==
    IF digits # << >> /\ digits[Len(digits)] = "0"
    THEN Significant(SubSeq(digits, 1, Len(digits) - 1))
    ELSE digits

\* lexeme.parse::<f64>() on a lexeme of digits and dots that starts with a
\* digit and does not end with a dot: an Err when it holds more than one dot,
\* else the decimal it writes (an integer when its fraction is zero)
parse_f64(lexeme) ==
    LET dots == {k \in 1..Len(lexeme) : lexeme[k] = "."} IN
    IF Cardinality(dots) > 1 THEN [ok |-> FALSE, number |-> 0]
    ELSE IF dots = {} THEN [ok |-> TRUE, number |-> DigitsValue(lexeme)]
    ELSE LET dot == CHOOSE k \in dots : TRUE
             whole == DigitsValue(SubSeq(lexeme, 1, dot - 1))
             fraction == Significant(SubSeq(lexeme, dot + 1, Len(lexeme)))
         IN [ok |-> TRUE,
             number |-> IF fraction = << >> THEN whole
                        ELSE [whole |-> whole, fraction |-> fraction]]

\* Scanner::scan_number
scan_number(sc, src) ==
    Let(number_loop(sc, src), LAMBDA sc1 :
    Let(parse_f64(Lexeme(sc1, src)), LAMBDA number_conversion :
        IF number_conversion.ok
        THEN Scanned(add_token(sc1, "Number", Lexeme(sc1, src),
                               NumberValue(number_conversion.number)), "Ok", "")
        ELSE Scanned(sc1, "ScannerError", "unable to parse float")))

\* the loop of Scanner::scan_alphabetic
RECURSIVE alphabetic_loop(_, _)
alphabetic_loop(sc, src) ==
    IF Peek(sc, src) \in Alphanumeric THEN alphabetic_loop(advance(sc), src) ELSE sc

\* the keywords of scan_alphabetic
Keywords ==
    [token_type \in {"And", "Class", "Else", "False", "For", "Fun", "If", "Nil", "Or",
                     "Print", "Return", "Super", "This", "True", "Var", "While"} |->
        CASE token_type = "And" -> <<"a", "n", "d">>
          [] token_type = "Class" -> <<"c", "l", "a", "s", "s">>
          [] token_type = "Else" -> <<"e", "l", "s", "e">>
          [] token_type = "False" -> <<"f", "a", "l", "s", "e">>
          [] token_type = "For" -> <<"f", "o", "r">>
          [] token_type = "Fun" -> <<"f", "u", "n">>
          [] token_type = "If" -> <<"i", "f">>
          [] token_type = "Nil" -> <<"n", "i", "l">>
          [] token_type = "Or" -> <<"o", "r">>
          [] token_type = "Print" -> <<"p", "r", "i", "n", "t">>
          [] token_type = "Return" -> <<"r", "e", "t", "u", "r", "n">>
          [] token_type = "Super" -> <<"s", "u", "p", "e", "r">>
          [] token_type = "This" -> <<"t", "h", "i", "s">>
          [] token_type = "True" -> <<"t", "r", "u", "e">>
          [] token_type = "Var" -> <<"v", "a", "r">>
          [] token_type = "While" -> <<"w", "h", "i", "l", "e">>]

\* Scanner::scan_alphabetic
scan_alphabetic(sc, src) ==
    Let(alphabetic_loop(sc, src), LAMBDA sc1 :
    Let(IF \E k \in DOMAIN Keywords : Keywords[k] = Lexeme(sc1, src)
        THEN CHOOSE k \in DOMAIN Keywords : Keywords[k] = Lexeme(sc1, src)
        ELSE "Identifier", LAMBDA token_type :
        Scanned(add_token(sc1, token_type, Lexeme(sc1, src),
                          CASE token_type = "False" -> BooleanValue(FALSE)
                            [] token_type = "True" -> BooleanValue(TRUE)
                            [] token_type = "Nil" -> NilValue
                            [] OTHER -> None),
                "Ok", "")))

\* the one-char tokens of scan_token
SimpleTokens ==
    [s \in {"(", ")", "{", "}", ",", ".", "-", "+", ";", "*"} |->
        CASE s = "(" -> "LeftParen" [] s = ")" -> "RightParen"
          [] s = "{" -> "LeftBrace" [] s = "}" -> "RightBrace"
          [] s = "," -> "Comma" [] s = "." -> "Dot" [] s = "-" -> "Minus"
          [] s = "+" -> "Plus" [] s = ";" -> "Semicolon" [] s = "*" -> "Star"]

\* the tokens of scan_token that take a `=` after them
EqualTokens ==
    [s \in {"!", "=", "<", ">"} |->
        CASE s = "!" -> <<"Bang", "BangEqual">>
          [] s = "=" -> <<"Equal", "EqualEqual">>
          [] s = "<" -> <<"Less", "LessEqual">>
          [] s = ">" -> <<"Greater", "GreaterEqual">>]

\* Scanner::scan_token after `let s = self.advance(chars).unwrap()`
scan_token_of(sc, src, s) ==
    CASE s \in DOMAIN SimpleTokens ->
            Scanned(add_simple_token(sc, src, SimpleTokens[s]), "Ok", "")
      [] s \in DOMAIN EqualTokens ->
            Scanned(add_simple_token(match_next(sc, src, "="), src,
                                     IF Peek(sc, src) = "=" THEN EqualTokens[s][2]
                                     ELSE EqualTokens[s][1]), "Ok", "")
      [] s = "/" ->
            IF Peek(sc, src) = "/" THEN comment_loop(match_next(sc, src, "/"), src)
            ELSE Scanned(add_simple_token(sc, src, "Slash"), "Ok", "")
      [] s \in {" ", "\t", "\r"} -> Scanned(sc, "Ok", "")
      [] s = "\n" -> Scanned([sc EXCEPT !.line = @ + 1], "Ok", "")
      [] s = "\"" -> scan_string(sc, src)
      [] s \in Digits -> scan_number(sc, src)
      [] s \in Alphabetic -> scan_alphabetic(sc, src)
      [] OTHER -> Scanned(sc, "ScannerError", "unexpected character")

\* Scanner::scan_token
scan_token(sc, src) == scan_token_of(advance(sc), src, Peek(sc, src))

\* the first lines of scan without `self.tokens = Vec::new()`
scan_reset_keeping_tokens(sc) ==
    [sc EXCEPT !.start = 0, !.current = 0, !.line = 1]

\* Scanner::scan, its first lines: the fields but next_id are set anew
scan_reset(sc) ==
    [sc EXCEPT !.tokens = << >>, !.start = 0, !.current = 0, !.line = 1]

(***************************************************************************)
(* The parser (parse.rs).  `ps` is the Parser with the iterator `tokens`   *)
(* of parse: [tokens, pos, errors], pos the index of the token that        *)
(* tokens.peek() shows.  A result is Res(ps, "Ok", node) or                *)
(* Res(ps, "Err", error).  The token list of a scan that returned Ok ends  *)
(* with EOF, and no function of the parser but synchronize takes the EOF,  *)
(* so tokens.peek().unwrap() always finds a token.                         *)
(***************************************************************************)
MAX_PARAMETERS == 255

\* LoxErrorKind::SyntaxError(line)
SyntaxError(line) == [name |-> "SyntaxError", line |-> line]

\* LoxErrorKind::ScannerError
ScannerError == [name |-> "ScannerError"]

\* struct LoxError
LoxError(kind, message) == [kind |-> kind, message |-> message]

\* the iterator of Parser::parse over the tokens, for the Parser p
Cursor(p, tokens) == [tokens |-> tokens, pos |-> p.pos, errors |-> p.errors]

\* tokens.peek().unwrap()
peek(ps) == ps.tokens[ps.pos]

\* tokens.peek().unwrap().token_type is token_type
Is(ps, token_type) == peek(ps).token_type = token_type

\* tokens.next()
next(ps) == [ps EXCEPT !.pos = @ + 1]

\* Err(LoxError {kind: SyntaxError(tokens.peek().unwrap().line), message})
Unexpected(ps, message) ==
    Res(ps, "Err", LoxError(SyntaxError(peek(ps).line), message))

\* a match on the type of the next token that consumes it or returns an Err
Expect(ps, token_type, message, F(_)) ==
    IF Is(ps, token_type) THEN F(next(ps)) ELSE Unexpected(ps, message)

RECURSIVE declaration(_)
RECURSIVE statement(_)
RECURSIVE expression(_)
RECURSIVE block_loop(_, _)
RECURSIVE methods_loop(_, _)
RECURSIVE assignment(_)
RECURSIVE or_loop(_, _)
RECURSIVE and_loop(_, _)
RECURSIVE equality_loop(_, _)
RECURSIVE comparison_loop(_, _)
RECURSIVE term_loop(_, _)
RECURSIVE factor_loop(_, _)
RECURSIVE unary(_)
RECURSIVE call_loop(_, _)
RECURSIVE argument_rounds(_, _)
RECURSIVE parameter_rounds(_, _)
RECURSIVE synchronize_loop(_, _)

\* the token types that start a statement, for synchronize
StatementStarts == {"Class", "Fun", "Var", "For", "If", "While", "Print", "Return"}

\* the loop of Parser::synchronize, `token` the token taken last
synchronize_loop(ps, token) ==
    IF token.token_type = "Semicolon" THEN ps
    ELSE IF ps.pos > Len(ps.tokens) THEN ps
    ELSE IF peek(ps).token_type \in StatementStarts THEN ps
    ELSE synchronize_loop(next(ps), peek(ps))

\* a synchronize that consumes the token the error was met at and no more
synchronize_one_token(ps) ==
    IF ps.pos > Len(ps.tokens) THEN ps ELSE next(ps)

\* Parser::synchronize
synchronize(ps) ==
    IF ps.pos > Len(ps.tokens) THEN ps ELSE synchronize_loop(next(ps), peek(ps))

\* a loop of the parser that collects a list: its Parser and iterator, the
\* list so far, whether the loop has been left, and the Err it returned
Collecting(ps) ==
    [ps |-> ps, list |-> << >>, done |-> FALSE, failed |-> FALSE, err |-> None]

\* what a collecting loop that has been left returns
Collected(l) ==
    IF l.failed THEN Res(l.ps, "Err", l.err) ELSE Res(l.ps, "Ok", l.list)

\* `if parameters.len() > MAX_PARAMETERS { self.errors.push(..) }`, the same
\* for args in Parser::arguments: the error is recorded, nothing is returned
too_many(l) ==
    IF Len(l.list) > MAX_PARAMETERS
    THEN [l.ps EXCEPT !.errors = Append(@,
             LoxError(SyntaxError(peek(l.ps).line),
                      "can't have > 255 arguments to a function call"))]
    ELSE l.ps

\* one round of the loop of Parser::function over the parameters; a round
\* of a loop that has been left changes nothing
parameter_round(l) ==
    IF l.done THEN l
    ELSE Let(too_many(l), LAMBDA p :
         IF ~Is(p, "Identifier")
         THEN [l EXCEPT !.ps = p, !.done = TRUE, !.failed = TRUE,
                        !.err = LoxError(SyntaxError(peek(p).line), "expected identifier")]
         ELSE IF Is(next(p), "Comma")
         THEN [l EXCEPT !.ps = next(next(p)), !.list = Append(@, peek(p))]
         ELSE [l EXCEPT !.ps = next(p), !.list = Append(@, peek(p)), !.done = TRUE])

\* n rounds of the loop over the parameters: the first half of them, then the
\* others on what the first half left
parameter_rounds(l, n) ==
    IF n <= 1 THEN parameter_round(l)
    ELSE CHOOSE r \in {parameter_rounds(h, n - (n \div 2)) :
                       h \in {parameter_rounds(l, n \div 2)}} : TRUE

\* the loop of Parser::function over the parameters: a round that does not
\* leave the loop takes two tokens, so it is left within as many rounds as
\* there are tokens
parameters(ps) == Collected(parameter_rounds(Collecting(ps), Len(ps.tokens)))

\* one round of the loop of Parser::arguments
argument_round(l) ==
    IF l.done THEN l
    ELSE Let(expression(too_many(l)), LAMBDA e :
         IF e.kind # "Ok" THEN [l EXCEPT !.ps = e.st, !.done = TRUE, !.failed = TRUE,
                                      !.err = e.val]
         ELSE IF Is(e.st, "Comma")
         THEN [l EXCEPT !.ps = next(e.st), !.list = Append(@, e.val)]
         ELSE [l EXCEPT !.ps = e.st, !.list = Append(@, e.val), !.done = TRUE])

\* n rounds of the loop of Parser::arguments
argument_rounds(l, n) ==
    IF n <= 1 THEN argument_round(l)
    ELSE CHOOSE r \in {argument_rounds(h, n - (n \div 2)) :
                       h \in {argument_rounds(l, n \div 2)}} : TRUE

\* Parser::arguments
arguments(ps) == Collected(argument_rounds(Collecting(ps), Len(ps.tokens)))

\* Parser::primary
primary(ps) ==
    CASE peek(ps).token_type \in {"False", "True", "Number", "String", "Nil"} ->
            Res(next(ps), "Ok",
                [e |-> "Literal", token |-> peek(ps), value |-> peek(ps).literal])
      [] Is(ps, "This") -> Res(next(ps), "Ok", [e |-> "This", keyword |-> peek(ps)])
      [] Is(ps, "Super") ->
            IF ~Is(next(ps), "Dot")
            THEN Res(next(ps), "Err",
                     LoxError(ScannerError, "expected '.' after 'super' keyword"))
            ELSE IF ~Is(next(next(ps)), "Identifier")
            THEN Res(next(next(ps)), "Err",
                     LoxError(ScannerError, "expected superclass method name after '.'"))
            ELSE Res(next(next(next(ps))), "Ok",
                     [e |-> "Super", keyword |-> peek(ps),
                      method |-> peek(next(next(ps)))])
      [] Is(ps, "Identifier") ->
            Res(next(ps), "Ok", [e |-> "Variable", token |-> peek(ps)])
      [] Is(ps, "LeftParen") ->
            Try(expression(next(ps)), LAMBDA r :
                IF Is(r.st, "RightParen")
                THEN Res(next(r.st), "Ok", [e |-> "Grouping", expr |-> r.val])
                ELSE Res(r.st, "Err",
                         LoxError(ScannerError, "expected ')' after expression")))
      [] OTHER -> Unexpected(ps, "invalid syntax")

\* the loop of Parser::call
call_loop(ps, expr) ==
    CASE Is(ps, "LeftParen") ->
            IF Is(next(ps), "RightParen")
            THEN call_loop(next(next(ps)),
                           [e |-> "Call", callee |-> expr, arguments |-> << >>,
                            token |-> peek(next(ps))])
            ELSE Try(arguments(next(ps)), LAMBDA args :
                     IF Is(args.st, "RightParen")
                     THEN call_loop(next(args.st),
                                    [e |-> "Call", callee |-> expr,
                                     arguments |-> args.val, token |-> peek(args.st)])
                     ELSE Res(args.st, "Err",
                              LoxError(ScannerError, "expected ')' call")))
      [] Is(ps, "Dot") ->
            IF Is(next(ps), "Identifier")
            THEN call_loop(next(next(ps)),
                           [e |-> "Get", object |-> expr, name |-> peek(next(ps))])
            ELSE Res(next(ps), "Err",
                     LoxError(ScannerError, "expected identifier after '.'"))
      [] OTHER -> Res(ps, "Ok", expr)

\* Parser::call
call(ps) == Try(primary(ps), LAMBDA r : call_loop(r.st, r.val))

\* Parser::unary
unary(ps) ==
    IF peek(ps).token_type \in {"Bang", "Minus"}
    THEN Try(unary(next(ps)), LAMBDA right :
             Res(right.st, "Ok",
                 [e |-> "Unary", operator |-> peek(ps).token_type, token |-> peek(ps),
                  right |-> right.val]))
    ELSE call(ps)

\* Expr::Binary
BinaryNode(token, left, right) ==
    [e |-> "Binary", token |-> token, operator |-> token.token_type,
     left |-> left, right |-> right]

\* Expr::Logical
LogicalNode(token, left, right) ==
    [e |-> "Logical", token |-> token, operator |-> token.token_type,
     left |-> left, right |-> right]

\* the loop of Parser::factor
factor_loop(ps, expr) ==
    IF peek(ps).token_type \in {"Slash", "Star"}
    THEN Try(unary(next(ps)), LAMBDA right :
             factor_loop(right.st, BinaryNode(peek(ps), expr, right.val)))
    ELSE Res(ps, "Ok", expr)

\* Parser::factor
factor(ps) == Try(unary(ps), LAMBDA r : factor_loop(r.st, r.val))

\* the loop of Parser::term
term_loop(ps, expr) ==
    IF peek(ps).token_type \in {"Minus", "Plus"}
    THEN Try(factor(next(ps)), LAMBDA right :
             term_loop(right.st, BinaryNode(peek(ps), expr, right.val)))
    ELSE Res(ps, "Ok", expr)

\* Parser::term
term(ps) == Try(factor(ps), LAMBDA r : term_loop(r.st, r.val))

\* the loop of Parser::comparison
comparison_loop(ps, expr) ==
    IF peek(ps).token_type \in {"Greater", "GreaterEqual", "Less", "LessEqual"}
    THEN Try(term(next(ps)), LAMBDA right :
             comparison_loop(right.st, BinaryNode(peek(ps), expr, right.val)))
    ELSE Res(ps, "Ok", expr)

\* Parser::comparison
comparison(ps) == Try(term(ps), LAMBDA r : comparison_loop(r.st, r.val))

\* the loop of Parser::equality
equality_loop(ps, expr) ==
    IF peek(ps).token_type \in {"BangEqual", "EqualEqual"}
    THEN Try(comparison(next(ps)), LAMBDA right :
             equality_loop(right.st, BinaryNode(peek(ps), expr, right.val)))
    ELSE Res(ps, "Ok", expr)

\* Parser::equality
equality(ps) == Try(comparison(ps), LAMBDA r : equality_loop(r.st, r.val))

\* the loop of Parser::and
and_loop(ps, expr) ==
    IF Is(ps, "And")
    THEN Try(equality(next(ps)), LAMBDA right :
             and_loop(right.st, LogicalNode(peek(ps), expr, right.val)))
    ELSE Res(ps, "Ok", expr)

\* Parser::and
and(ps) == Try(equality(ps), LAMBDA r : and_loop(r.st, r.val))

\* the loop of Parser::or
or_loop(ps, expr) ==
    IF Is(ps, "Or")
    THEN Try(and(next(ps)), LAMBDA right :
             or_loop(right.st, LogicalNode(peek(ps), expr, right.val)))
    ELSE Res(ps, "Ok", expr)

\* Parser::or
or(ps) == Try(and(ps), LAMBDA r : or_loop(r.st, r.val))

\* Parser::assignment
assignment(ps) ==
    Try(or(ps), LAMBDA expr :
        IF ~Is(expr.st, "Equal") THEN expr
        ELSE Try(assignment(next(expr.st)), LAMBDA value :
                 CASE expr.val.e = "Variable" ->
                        Res(value.st, "Ok",
                            [e |-> "Assignment", token |-> expr.val.token,
                             value |-> value.val])
                   [] expr.val.e = "Get" ->
                        Res(value.st, "Ok",
                            [e |-> "Set", object |-> expr.val.object,
                             name |-> expr.val.name, value |-> value.val])
                   [] OTHER -> Unexpected(value.st, "invalid assignment target")))

\* Parser::expression
expression(ps) == assignment(ps)

\* Parser::expression_statement
expression_statement(ps) ==
    Try(expression(ps), LAMBDA expr :
        Expect(expr.st, "Semicolon", "expected ';' after statement", LAMBDA p :
            Res(p, "Ok", [s |-> "Expression", expression |-> expr.val])))

\* Parser::return_statement
return_statement(ps) ==
    IF Is(next(ps), "Semicolon")
    THEN Res(next(next(ps)), "Ok",
             [s |-> "Return", keyword |-> peek(ps), value |-> None])
    ELSE Try(expression(next(ps)), LAMBDA value :
             Expect(value.st, "Semicolon", "expected ';' after return statement",
                    LAMBDA p :
                 Res(p, "Ok", [s |-> "Return", keyword |-> peek(ps),
                               value |-> value.val])))

\* Parser::var_declaration
var_declaration(ps) ==
    IF ~Is(next(ps), "Identifier") THEN Unexpected(next(ps), "expected identifier")
    ELSE Try(IF Is(next(next(ps)), "Equal") THEN expression(next(next(next(ps))))
             ELSE Res(next(next(ps)), "Ok", None), LAMBDA initializer :
             Expect(initializer.st, "Semicolon", "expected ';' variable declaration",
                    LAMBDA p :
                 Res(p, "Ok", [s |-> "VarDecl", token |-> peek(next(ps)),
                               initializer |-> initializer.val])))

\* the initializer clause of Parser::for_statement: at a `;` there is none,
\* and the `;` is left where it is
for_initializer(ps) ==
    CASE Is(ps, "Semicolon") -> Res(ps, "Ok", None)
      [] Is(ps, "Var") -> var_declaration(ps)
      [] OTHER -> expression_statement(ps)

\* the condition clause of Parser::for_statement
for_condition(ps) ==
    IF Is(ps, "Semicolon")
    THEN Res(ps, "Ok", [e |-> "Literal", token |-> peek(ps), value |-> BooleanValue(TRUE)])
    ELSE expression(ps)

\* the increment clause of Parser::for_statement: there is none at a `;`
for_increment(ps) ==
    IF Is(ps, "Semicolon") THEN Res(ps, "Ok", None) ELSE expression(ps)

\* Statement::WhileStatement
WhileNode(condition, body) == [s |-> "While", condition |-> condition, body |-> body]

\* Statement::BlockStatement
BlockNode(stmts) == [s |-> "Block", statements |-> stmts]

\* the while statement Parser::for_statement makes of its clauses
for_while(condition, increment, body) ==
    IF increment.e = "None" THEN WhileNode(condition, body)
    ELSE WhileNode(condition,
                   BlockNode(<< body, [s |-> "Expression", expression |-> increment] >>))

\* the statement Parser::for_statement returns
desugar(initializer, condition, increment, body) ==
    IF initializer.s = "None" THEN for_while(condition, increment, body)
    ELSE BlockNode(<< initializer, for_while(condition, increment, body) >>)

\* Parser::for_statement
for_statement(ps) ==
    Expect(next(ps), "LeftParen", "expected '(' after for", LAMBDA p1 :
    Try(for_initializer(p1), LAMBDA initializer :
    Try(for_condition(initializer.st), LAMBDA condition :
    Expect(condition.st, "Semicolon", "expected ';' after for condition", LAMBDA p2 :
    Try(for_increment(p2), LAMBDA increment :
    Expect(increment.st, "RightParen", "expected ')' after for clause", LAMBDA p3 :
    Try(statement(p3), LAMBDA body :
        Res(body.st, "Ok",
            desugar(initializer.val, condition.val, increment.val, body.val)))))))))

\* Parser::while_statement
while_statement(ps) ==
    Expect(next(ps), "LeftParen", "expected '(' after while", LAMBDA p1 :
    Try(expression(p1), LAMBDA condition :
    Expect(condition.st, "RightParen", "expected ')' after while condition", LAMBDA p2 :
    Try(statement(p2), LAMBDA body :
        Res(body.st, "Ok", WhileNode(condition.val, body.val))))))

\* Parser::if_statement
if_statement(ps) ==
    Expect(next(ps), "LeftParen", "expected '(' after if", LAMBDA p1 :
    Try(expression(p1), LAMBDA condition :
    Expect(condition.st, "RightParen", "expected ')' after if condition", LAMBDA p2 :
    Try(statement(p2), LAMBDA then_branch :
    Try(IF Is(then_branch.st, "Else") THEN statement(next(then_branch.st))
        ELSE Res(then_branch.st, "Ok", None), LAMBDA else_branch :
        Res(else_branch.st, "Ok",
            [s |-> "If", condition |-> condition.val, then_branch |-> then_branch.val,
             else_branch |-> else_branch.val]))))))

\* the loop of Parser::block
block_loop(ps, stmts) ==
    CASE Is(ps, "RightBrace") -> Res(next(ps), "Ok", stmts)
      [] Is(ps, "EOF") -> Unexpected(ps, "reached EOF while parsing, expected '}'")
      [] OTHER -> Try(declaration(ps), LAMBDA d : block_loop(d.st, Append(stmts, d.val)))

\* a block that takes the token it stops at, EOF too
block_taking(ps) ==
    LET r == block_loop(next(ps), << >>)
    IN IF r.kind = "Err" /\ r.st.pos <= Len(r.st.tokens) /\ Is(r.st, "EOF")
       THEN Res(next(r.st), r.kind, r.val) ELSE r

\* Parser::block
block(ps) == block_loop(next(ps), << >>)

\* Parser::block_statement
block_statement(ps) == Try(block(ps), LAMBDA b : Res(b.st, "Ok", BlockNode(b.val)))

\* Parser::print_statement
print_statement(ps) ==
    Try(expression(next(ps)), LAMBDA value :
        Expect(value.st, "Semicolon", "expected ';' after statement", LAMBDA p :
            Res(p, "Ok", [s |-> "Print", token |-> peek(ps), value |-> value.val])))

\* Parser::statement
statement(ps) ==
    CASE Is(ps, "Print") -> print_statement(ps)
      [] Is(ps, "LeftBrace") -> block_statement(ps)
      [] Is(ps, "If") -> if_statement(ps)
      [] Is(ps, "While") -> while_statement(ps)
      [] Is(ps, "For") -> for_statement(ps)
      [] Is(ps, "Return") -> return_statement(ps)
      [] OTHER -> expression_statement(ps)

\* the messages of Parser::function for FunctionKind::Function and ::Method
FunctionMessages ==
    [Function |-> [name |-> "expected function name",
                   paren |-> "expected '(' afer function name",
                   brace |-> "expected '{' afer function body"],
     Method |-> [name |-> "expected method name",
                 paren |-> "expected '(' after method name",
                 brace |-> "expected '{' after method body"]]

\* Parser::function
function(ps, kind) ==
    IF ~Is(ps, "Identifier") THEN Unexpected(ps, FunctionMessages[kind].name)
    ELSE IF ~Is(next(ps), "LeftParen")
    THEN Unexpected(next(ps), FunctionMessages[kind].paren)
    ELSE Try(IF Is(next(next(ps)), "RightParen") THEN Res(next(next(ps)), "Ok", << >>)
             ELSE parameters(next(next(ps))), LAMBDA params :
             Expect(params.st, "RightParen", "expected ')' after parameters", LAMBDA p :
                 IF ~Is(p, "LeftBrace") THEN Unexpected(p, FunctionMessages[kind].brace)
                 ELSE Try(block(p), LAMBDA body :
                          Res(body.st, "Ok",
                              [s |-> "FunDecl", name |-> peek(ps), body |-> body.val,
                               parameters |-> params.val]))))

\* Parser::fun_declaration
fun_declaration(ps) == function(next(ps), "Function")

\* the loop of Parser::class_declaration over the methods
methods_loop(ps, methods) ==
    CASE Is(ps, "RightBrace") -> Res(next(ps), "Ok", methods)
      [] Is(ps, "EOF") -> Unexpected(ps, "reached EOF while parsing, expected '}'")
      [] OTHER -> Try(function(ps, "Method"), LAMBDA m :
                      methods_loop(m.st, Append(methods, m.val)))

\* the superclass clause of Parser::class_declaration
superclass_clause(ps) ==
    IF ~Is(ps, "Less") THEN Res(ps, "Ok", None)
    ELSE IF Is(next(ps), "Identifier")
    THEN Res(next(next(ps)), "Ok", [e |-> "Variable", token |-> peek(next(ps))])
    ELSE Unexpected(next(ps), "Expected super class name")

\* Parser::class_declaration
class_declaration(ps) ==
    IF ~Is(next(ps), "Identifier") THEN Unexpected(next(ps), "Expected class name")
    ELSE Try(superclass_clause(next(next(ps))), LAMBDA superclass :
         Expect(superclass.st, "LeftBrace", "Expected { after class declaration",
                LAMBDA p :
             Try(methods_loop(p, << >>), LAMBDA methods :
                 Res(methods.st, "Ok",
                     [s |-> "ClassDecl", name |-> peek(next(ps)),
                      methods |-> methods.val, superclass |-> superclass.val]))))

\* Parser::declaration
declaration(ps) ==
    CASE Is(ps, "Class") -> class_declaration(ps)
      [] Is(ps, "Var") -> var_declaration(ps)
      [] Is(ps, "Fun") -> fun_declaration(ps)
      [] OTHER -> statement(ps)

\* Parser::new and the start of Parser::parse: no error, no statement, the
\* iterator before the first token, nothing returned
Parser == [pos |-> 1, errors |-> << >>, statements |-> << >>, result |-> ""]

(***************************************************************************)
(* The driver (main.rs): Interpreter::run_prompt and Interpreter::run.     *)
(* The scanner and the parser are not part of this specification: an input *)
(* is the statement list they yield.                                       *)
(***************************************************************************)
\* TreeWalker::new_from_outputter, Interpreter::new
Init ==
    /\ envs = << Environment(Insert(EmptyMap, "clock", ClockCallable), 0) >>
    /\ instances = << >>
    /\ environment = globals
    /\ locals = EmptyMap
    /\ outputted = << >>
    /\ statements = << >>
    /\ had_error = FALSE
    /\ pc = "prompt"
    /\ lines = << >>
    /\ log = << >>
    /\ last = ""
    /\ resolving = << >>
    /\ errors = << >>
    /\ source = << >>
    /\ scanner = Scanner
    /\ parser = Parser
    /\ fpc = "idle"
    /\ scans = 0

\* the evaluator as it stands when visit_statement is entered
Walker(now) ==
    [envs |-> envs, instances |-> instances, environment |-> environment,
     outputted |-> outputted, log |-> << >>, fuel |-> MaxFuel, evals |-> 0,
     frames |-> << >>, initializing |-> << >>, now |-> now]

\* Interpreter::run_prompt reads a line and Interpreter::run starts on it:
\* the input p is scanned and parsed, and a Resolver is made
ReadLine(p) ==
    /\ pc = "prompt"
    /\ Len(lines) < MaxLines
    /\ \A k \in 1..Len(lines) : lines[k] # p
    /\ lines' = Append(lines, p)
    /\ statements' = Pool[p]
    /\ resolving' = Pool[p]
    /\ errors' = << >>
    /\ pc' = "resolve"
    /\ log' = << >>
    /\ last' = ""
    /\ UNCHANGED <<envs, instances, environment, locals, outputted, had_error>>
    /\ UNCHANGED front

\* Resolver::resolve, one round of its loop: between two top-level statements
\* the scope stack is empty and the function and class kinds are None
Resolve ==
    /\ pc = "resolve"
    /\ resolving # << >>
    /\ \E rs \in {resolve_statement([Resolver(locals) EXCEPT !.errors = errors],
                                     Head(resolving))} :
          /\ locals' = rs.locals
          /\ errors' = rs.errors
    /\ resolving' = Tail(resolving)
    /\ UNCHANGED <<envs, instances, environment, outputted, statements, had_error,
                   pc, lines, log, last>>
    /\ UNCHANGED front

\* the errors of the resolver are reported and the statements are visited
\* all the same
Resolved_visiting ==
    /\ pc = "resolve"
    /\ resolving = << >>
    /\ had_error' = (had_error \/ Len(errors) > 0)
    /\ pc' = IF statements = << >> THEN "ran" ELSE "eval"
    /\ last' = "Ok"
    /\ UNCHANGED <<envs, instances, environment, locals, outputted, lines, log,
                   resolving, errors, statements>>
    /\ UNCHANGED front

\* Interpreter::run after the resolver: its errors are reported and end the
\* run; without errors the statements are visited
Resolved ==
    /\ pc = "resolve"
    /\ resolving = << >>
    /\ IF Len(errors) > 0
       THEN /\ had_error' = TRUE
            /\ statements' = << >>
            /\ pc' = "ran"
            /\ last' = "ResolvingError"
       ELSE /\ had_error' = had_error
            /\ statements' = statements
            /\ pc' = IF statements = << >> THEN "ran" ELSE "eval"
            /\ last' = "Ok"
    /\ UNCHANGED <<envs, instances, environment, locals, outputted, lines, log,
                   resolving, errors>>
    /\ UNCHANGED front

\* Interpreter::run, one round of the loop over the statements: the next
\* statement is visited; an Err is reported and ends the run
Execute ==
    /\ pc = "eval"
    /\ statements # << >>
    /\ \E now \in 0..MaxClock :
         \E r \in {visit_statement(Walker(now), Head(statements))} :
         /\ r.kind # "Fuel"
         /\ envs' = r.st.envs
         /\ instances' = r.st.instances
         /\ environment' = r.st.environment
         /\ outputted' = r.st.outputted
         /\ log' = r.st.log
         /\ last' = r.kind
         /\ CASE r.kind = "Ok" ->
                   /\ statements' = Tail(statements)
                   /\ pc' = IF Tail(statements) = << >> THEN "ran" ELSE "eval"
                   /\ had_error' = had_error
              [] r.kind = "Panic" ->
                   /\ statements' = statements
                   /\ pc' = "crashed"
                   /\ had_error' = had_error
              [] OTHER ->
                   /\ statements' = << >>
                   /\ pc' = "ran"
                   /\ had_error' = TRUE
    /\ UNCHANGED <<locals, lines, resolving, errors>>
    /\ UNCHANGED front

\* Interpreter::run_prompt after run returns: the error flag is cleared and
\* the next line is awaited
Prompt ==
    /\ pc = "ran"
    /\ had_error' = FALSE
    /\ pc' = "prompt"
    /\ UNCHANGED <<envs, instances, environment, locals, outputted, statements,
                   lines, log, last, resolving, errors>>
    /\ UNCHANGED front

Next ==
    \/ \E p \in DOMAIN Pool : ReadLine(p)
    \/ Resolve
    \/ Resolved
    \/ Execute
    \/ Prompt

Spec == Init /\ [][Next]_vars

(***************************************************************************)
(* Scanner::scan as Interpreter::run calls it, one round of its loop at a  *)
(* time.  fpc is where the front end of the run stands: "idle" before the  *)
(* first run, "scanning" inside the loop of scan, "scanned" after scan     *)
(* returned Ok, "failed" after it returned an Err, "looping" inside the    *)
(* comment loop when that has no way out, "parsing" inside the loop of     *)
(* Parser::parse, "parsed" after parse returned.                           *)
(***************************************************************************)
\* a // comment
Comment == <<"/", "/", " ", "c">>

\* the lines read at the prompt
ScanSources ==
    << <<"1", ".", "2", ".", "3">>,                      \* 1.2.3
       <<"1", ".", ";">>,                                \* 1.;
       <<"1", "2", ".", "5", "0", " ", "7">>,            \* 12.50 7
       <<"1", ".", "2", ".", "x">>,                      \* 1.2.x
       Comment,                                          \* // c
       Comment \o <<"\n", "1">>,                         \* // c (newline) 1
       <<"1", "/", "2", " ">> \o Comment \o <<"\n">>,    \* 1/2 // c (newline)
       <<"v", "a", "r", " ", "x", "=", "\"", "a", "\"", ";">>,   \* var x="a";
       <<"a", "!", "=", "n", "i", "l">>,                 \* a!=nil
       <<"\"", "a">>,                                    \* "a
       <<"a", "_">>,                                     \* a_
       << >> >>

\* Scanner::scan up to its loop, for the line src read at the prompt after
\* the run of the line before it has ended
ScanLine(src) ==
    /\ fpc \in {"idle", "scanned", "failed", "parsed"}
    /\ scans < MaxScans
    /\ source' = src
    /\ scanner' = scan_reset(scanner)
    /\ fpc' = "scanning"
    /\ scans' = scans + 1
    /\ UNCHANGED <<interp, parser>>

\* one round of the loop of Scanner::scan: scan_token, then start = current;
\* an Err leaves scan at once
ScanToken ==
    /\ fpc = "scanning"
    /\ Peek(scanner, source) # NoChar
    /\ \E r \in {scan_token(scanner, source)} :
          /\ scanner' = IF r.kind = "Ok" THEN [r.sc EXCEPT !.start = r.sc.current]
                        ELSE r.sc
          /\ fpc' = CASE r.kind = "Ok" -> "scanning"
                      [] r.kind = "Diverge" -> "looping"
                      [] OTHER -> "failed"
    /\ UNCHANGED <<interp, source, parser, scans>>

\* the end of Scanner::scan: chars.peek() is None, the EOF token is added
ScanEnd ==
    /\ fpc = "scanning"
    /\ Peek(scanner, source) = NoChar
    /\ scanner' = add_token(scanner, "EOF", << >>, None)
    /\ fpc' = "scanned"
    /\ UNCHANGED <<interp, source, parser, scans>>

NextScan ==
    \/ \E k \in DOMAIN ScanSources : ScanLine(ScanSources[k])
    \/ ScanToken
    \/ ScanEnd

\* the prompt, as far as the scanner goes
SpecScan == Init /\ [][NextScan]_vars

\* every round of a loop that is running is run
SpecScanFair == SpecScan /\ WF_vars(NextScan)

(***************************************************************************)
(* Interpreter::run_file: one run, in a new Interpreter, of the source of  *)
(* a file, as far as the parser: Scanner::scan, then Parser::parse one     *)
(* round of its loop at a time.                                            *)
(***************************************************************************)
\* the clauses and the bodies of the for statements read
ForInitializers ==
    { << >>, <<"i", "=", "0">>, Keywords["Var"] \o <<" ", "i", "=", "0">> }

ForConditions == { << >>, <<"i", "<", "2">> }

ForIncrements == { << >>, <<"i", "=", "i", "+", "1">> }

ForBodies ==
    { Keywords["Print"] \o <<" ", "i", ";">>,
      <<"{">> \o Keywords["Print"] \o <<" ", "i", ";", "}">> }

\* for(I;C;U)S
ForSource(I, C, U, S) ==
    Keywords["For"] \o <<"(">> \o I \o <<";">> \o C \o <<";">> \o U \o <<")">> \o S

\* a,a,...,a with n names
Names(n) ==
    [k \in 1..(IF n = 0 THEN 0 ELSE 2 * n - 1) |-> IF k % 2 = 1 THEN "a" ELSE ","]

\* fun f(a,...,a){}
FunSource(n) == Keywords["Fun"] \o <<" ", "f", "(">> \o Names(n) \o <<")", "{", "}">>

\* f(a,...,a);
CallSource(n) == <<"f", "(">> \o Names(n) \o <<")", ";">>

\* class C{m(a,...,a){}}
MethodSource(n) ==
    Keywords["Class"] \o <<" ", "C", "{", "m", "(">> \o Names(n) \o <<")", "{", "}", "}">>

\* the lengths of the parameter and argument lists read
Lengths == (0..MaxShort) \cup ((MAX_PARAMETERS - 1)..(MAX_PARAMETERS + MaxOver))

\* {1=2;print 3;}
InvalidTarget ==
    <<"{", "1", "=", "2", ";">> \o Keywords["Print"] \o <<" ", "3", ";", "}">>

\* other sources
Samples ==
    { InvalidTarget,
      \* var 1 2 print 3;
      Keywords["Var"] \o <<" ", "1", " ", "2", " ">> \o Keywords["Print"]
          \o <<" ", "3", ";">>,
      \* (a)=f(1=2,3);print 3;
      <<"(", "a", ")", "=", "f", "(", "1", "=", "2", ",", "3", ")", ";">>
          \o Keywords["Print"] \o <<" ", "3", ";">>,
       \* if(a)print 1;else{return;}
      Keywords["If"] \o <<"(", "a", ")">> \o Keywords["Print"] \o <<" ", "1", ";">>
          \o Keywords["Else"] \o <<"{">> \o Keywords["Return"] \o <<";", "}">>,
      \* a.b(1).c=!x or y==2;print 1
      <<"a", ".", "b", "(", "1", ")", ".", "c", "=", "!", "x", " ">> \o Keywords["Or"]
          \o <<" ", "y", "=", "=", "2", ";">> \o Keywords["Print"] \o <<" ", "1">>,
      \* while(true)x=x-1*2;
      Keywords["While"] \o <<"(">> \o Keywords["True"] \o <<")", "x", "=", "x", "-",
          "1", "*", "2", ";">>,
      \* class B<A{f(){return super.f;}}
      Keywords["Class"] \o <<" ", "B", "<", "A", "{", "f", "(", ")", "{">>
          \o Keywords["Return"] \o <<" ">> \o Keywords["Super"] \o <<".", "f", ";", "}", "}">>,
      \* 1=2;var y;print(3;
      <<"1", "=", "2", ";">> \o Keywords["Var"] \o <<" ", "y", ";">>
          \o Keywords["Print"] \o <<"(", "3", ";">> }

\* the sources that end anywhere within one of these
Whole ==
    Samples \cup {FunSource(1), MethodSource(1), CallSource(2)}
    \cup {ForSource(I, <<"i", "<", "2">>, <<"i", "=", "i", "+", "1">>,
                     <<"{">> \o Keywords["Print"] \o <<" ", "i", ";", "}">>) :
              I \in ForInitializers}

Truncated ==
    UNION {{SubSeq(src, 1, n) : n \in 0..(Len(src) - 1)} : src \in Whole}

ParseSources ==
    {ForSource(I, C, U, S) : I \in ForInitializers, C \in ForConditions,
                             U \in ForIncrements, S \in ForBodies}
    \cup {FunSource(n) : n \in Lengths} \cup {CallSource(n) : n \in Lengths}
    \cup {MethodSource(n) : n \in Lengths} \cup Samples \cup Truncated

\* Interpreter::run_file calls run, which calls Scanner::scan
RunFile(src) ==
    /\ fpc = "idle"
    /\ source' = src
    /\ scanner' = scan_reset(scanner)
    /\ fpc' = "scanning"
    /\ scans' = scans + 1
    /\ UNCHANGED <<interp, parser>>

\* Interpreter::run after scan returned Ok: Parser::new, and parse is entered
ParseStart ==
    /\ fpc = "scanned"
    /\ parser' = Parser
    /\ fpc' = "parsing"
    /\ UNCHANGED <<interp, source, scanner, scans>>

\* the loop of Parser::parse is over: no token, or EOF, is next
AtEnd ==
    IF parser.pos > Len(scanner.tokens) THEN TRUE
    ELSE Is(Cursor(parser, scanner.tokens), "EOF")

\* one round of the loop of Parser::parse: a declaration is parsed and
\* pushed, or its Err is pushed and the parser synchronizes
Declaration ==
    /\ fpc = "parsing"
    /\ ~AtEnd
    /\ \E r \in {declaration(Cursor(parser, scanner.tokens))} :
          parser' = IF r.kind = "Ok"
                    THEN [parser EXCEPT !.pos = r.st.pos, !.errors = r.st.errors,
                                        !.statements = Append(@, r.val)]
                    ELSE [parser EXCEPT !.pos = synchronize(r.st).pos,
                                        !.errors = Append(r.st.errors, r.val)]
    /\ UNCHANGED <<interp, source, scanner, fpc, scans>>

\* the end of Parser::parse: Err(()) when an error was recorded
ParseEnd ==
    /\ fpc = "parsing"
    /\ AtEnd
    /\ parser' = [parser EXCEPT !.result = IF Len(parser.errors) > 0 THEN "Err" ELSE "Ok"]
    /\ fpc' = "parsed"
    /\ UNCHANGED <<interp, source, scanner, scans>>

NextParse ==
    \/ \E src \in ParseSources : RunFile(src)
    \/ ScanToken
    \/ ScanEnd
    \/ ParseStart
    \/ Declaration
    \/ ParseEnd

\* the run of a file, as far as the parser
SpecParse == Init /\ [][NextParse]_vars

\* parse is sequential code: a round of its loop that can be run is run
SpecParseFair == SpecParse /\ WF_vars(NextParse)

(***************************************************************************)
(* Interpreter::run at the prompt, all of it: the line is scanned, the     *)
(* tokens are parsed, the statements are resolved and then visited.  The   *)
(* evaluator of this model reads lexemes and string literals as strings,   *)
(* the scanner writes them as sequences of characters: Owned* is the       *)
(* syntax tree the parser returned with each of them as a string.          *)
(***************************************************************************)
\* the String of a sequence of characters
RECURSIVE Text(_)
Text(chars) == IF chars = << >> THEN "" ELSE Head(chars) \o Text(Tail(chars))

OwnedToken(token) == [token EXCEPT !.lexeme = Text(@)]

OwnedLiteral(value) ==
    IF value.t = "String" THEN StringValue(Text(value.s)) ELSE value

RECURSIVE OwnedExpr(_)
OwnedExprs(exprs) == [k \in DOMAIN exprs |-> OwnedExpr(exprs[k])]

OwnedExpr(expr) ==
    CASE expr.e = "None" -> expr
      [] expr.e = "Literal" ->
            [expr EXCEPT !.token = OwnedToken(@), !.value = OwnedLiteral(@)]
      [] expr.e \in {"This"} -> [expr EXCEPT !.keyword = OwnedToken(@)]
      [] expr.e = "Super" ->
            [expr EXCEPT !.keyword = OwnedToken(@), !.method = OwnedToken(@)]
      [] expr.e = "Variable" -> [expr EXCEPT !.token = OwnedToken(@)]
      [] expr.e = "Grouping" -> [expr EXCEPT !.expr = OwnedExpr(@)]
      [] expr.e = "Call" ->
            [expr EXCEPT !.callee = OwnedExpr(@), !.arguments = OwnedExprs(@),
                         !.token = OwnedToken(@)]
      [] expr.e = "Get" -> [expr EXCEPT !.object = OwnedExpr(@), !.name = OwnedToken(@)]
      [] expr.e = "Set" ->
            [expr EXCEPT !.object = OwnedExpr(@), !.name = OwnedToken(@),
                         !.value = OwnedExpr(@)]
      [] expr.e = "Unary" -> [expr EXCEPT !.token = OwnedToken(@), !.right = OwnedExpr(@)]
      [] expr.e \in {"Binary", "Logical"} ->
            [expr EXCEPT !.token = OwnedToken(@), !.left = OwnedExpr(@),
                         !.right = OwnedExpr(@)]
      [] expr.e = "Assignment" ->
            [expr EXCEPT !.token = OwnedToken(@), !.value = OwnedExpr(@)]

RECURSIVE OwnedStatement(_)
OwnedStatements(stmts) == [k \in DOMAIN stmts |-> OwnedStatement(stmts[k])]

OwnedStatement(stmt) ==
    CASE stmt.s = "None" -> stmt
      [] stmt.s = "Expression" -> [stmt EXCEPT !.expression = OwnedExpr(@)]
      [] stmt.s = "Print" -> [stmt EXCEPT !.token = OwnedToken(@), !.value = OwnedExpr(@)]
      [] stmt.s = "Return" ->
            [stmt EXCEPT !.keyword = OwnedToken(@), !.value = OwnedExpr(@)]
      [] stmt.s = "VarDecl" ->
            [stmt EXCEPT !.token = OwnedToken(@), !.initializer = OwnedExpr(@)]
      [] stmt.s = "Block" -> [stmt EXCEPT !.statements = OwnedStatements(@)]
      [] stmt.s = "If" ->
            [stmt EXCEPT !.condition = OwnedExpr(@), !.then_branch = OwnedStatement(@),
                         !.else_branch = OwnedStatement(@)]
      [] stmt.s = "While" ->
            [stmt EXCEPT !.condition = OwnedExpr(@), !.body = OwnedStatement(@)]
      [] stmt.s = "FunDecl" ->
            [stmt EXCEPT !.name = OwnedToken(@),
                         !.parameters = [k \in DOMAIN @ |-> OwnedToken(@[k])],
                         !.body = OwnedStatements(@)]
      [] stmt.s = "ClassDecl" ->
            [stmt EXCEPT !.name = OwnedToken(@), !.superclass = OwnedExpr(@),
                         !.methods = OwnedStatements(@)]

\* print 1;print 2;
TwoPrints ==
    Keywords["Print"] \o <<" ", "1", ";">> \o Keywords["Print"] \o <<" ", "2", ";">>

\* the lines read at the prompt
RunSources ==
    << TwoPrints,
       \* print 1;"a
       Keywords["Print"] \o <<" ", "1", ";", "\"", "a">>,
       \* print 1;print(3;
       Keywords["Print"] \o <<" ", "1", ";">> \o Keywords["Print"] \o <<"(", "3", ";">>,
       \* print 1;return 2;
       Keywords["Print"] \o <<" ", "1", ";">> \o Keywords["Return"] \o <<" ", "2", ";">>,
       \* print 1;print -nil;print 2;
       Keywords["Print"] \o <<" ", "1", ";">> \o Keywords["Print"] \o <<" ", "-">>
           \o Keywords["Nil"] \o <<";">> \o Keywords["Print"] \o <<" ", "2", ";">>,
       \* var a=1;{var b=a;print b;}
       Keywords["Var"] \o <<" ", "a", "=", "1", ";", "{">> \o Keywords["Var"]
           \o <<" ", "b", "=", "a", ";">> \o Keywords["Print"] \o <<" ", "b", ";", "}">>,
       \* a=a+1;print a;
       <<"a", "=", "a", "+", "1", ";">> \o Keywords["Print"] \o <<" ", "a", ";">>,
       \* fun f(){print "x";}f();f();
       Keywords["Fun"] \o <<" ", "f", "(", ")", "{">> \o Keywords["Print"]
           \o <<" ", "\"", "x", "\"", ";", "}", "f", "(", ")", ";", "f", "(", ")", ";">>,
       \* var i=0;while(i<2){print i;i=i+1;}
       Keywords["Var"] \o <<" ", "i", "=", "0", ";">> \o Keywords["While"]
           \o <<"(", "i", "<", "2", ")", "{">> \o Keywords["Print"]
           \o <<" ", "i", ";", "i", "=", "i", "+", "1", ";", "}">> >>

\* Interpreter::run_prompt read a line and Interpreter::run starts on it:
\* Scanner::scan up to its loop
RunLine(src) ==
    /\ pc = "prompt"
    /\ scans < MaxScans
    /\ source' = src
    /\ scanner' = scan_reset(scanner)
    /\ fpc' = "scanning"
    /\ scans' = scans + 1
    /\ pc' = "run"
    /\ log' = << >>
    /\ last' = ""
    /\ UNCHANGED <<envs, instances, environment, locals, outputted, statements,
                   resolving, errors, had_error, lines, parser>>

\* Interpreter::run when scan returned an Err: self.error(e)
ScanFailed ==
    /\ pc = "run"
    /\ fpc = "failed"
    /\ had_error' = TRUE
    /\ pc' = "ran"
    /\ last' = "ScannerError"
    /\ UNCHANGED <<envs, instances, environment, locals, outputted, statements,
                   resolving, errors, lines, log>>
    /\ UNCHANGED front

\* Interpreter::run when parse returned Err: self.error on each parser error
ParseFailed ==
    /\ pc = "run"
    /\ fpc = "parsed"
    /\ parser.result = "Err"
    /\ had_error' = TRUE
    /\ pc' = "ran"
    /\ last' = "SyntaxError"
    /\ UNCHANGED <<envs, instances, environment, locals, outputted, statements,
                   resolving, errors, lines, log>>
    /\ UNCHANGED front

\* Interpreter::run when parse returned Ok(statements): Resolver::new, and
\* resolve is entered
ResolveStart ==
    /\ pc = "run"
    /\ fpc = "parsed"
    /\ parser.result = "Ok"
    /\ statements' = OwnedStatements(parser.statements)
    /\ resolving' = OwnedStatements(parser.statements)
    /\ errors' = << >>
    /\ pc' = "resolve"
    /\ UNCHANGED <<envs, instances, environment, locals, outputted, had_error,
                   lines, log, last>>
    /\ UNCHANGED front

NextRun ==
    \/ \E k \in DOMAIN RunSources : RunLine(RunSources[k])
    \/ ScanToken
    \/ ScanEnd
    \/ ScanFailed
    \/ ParseStart
    \/ Declaration
    \/ ParseEnd
    \/ ParseFailed
    \/ ResolveStart
    \/ Resolve
    \/ Resolved
    \/ Execute
    \/ Prompt

\* the prompt, from the line read to the statements visited
SpecRun == Init /\ [][NextRun]_vars

(***************************************************************************)
(* Properties.  They read the events of the statement visited last.        *)
(***************************************************************************)
RECURSIVE DeclaresSuperclass(_)
DeclaresSuperclass(stmt) ==
    CASE stmt.s = "ClassDecl" ->
            \/ stmt.superclass.e # "None"
            \/ \E k \in 1..Len(stmt.methods) : \E j \in 1..Len(stmt.methods[k].body) :
                  DeclaresSuperclass(stmt.methods[k].body[j])
      [] stmt.s = "Block" ->
            \E k \in 1..Len(stmt.statements) : DeclaresSuperclass(stmt.statements[k])
      [] stmt.s = "If" ->
            \/ DeclaresSuperclass(stmt.then_branch)
            \/ stmt.else_branch.s # "None" /\ DeclaresSuperclass(stmt.else_branch)
      [] stmt.s = "While" -> DeclaresSuperclass(stmt.body)
      [] stmt.s = "FunDecl" ->
            \E k \in 1..Len(stmt.body) : DeclaresSuperclass(stmt.body[k])
      [] OTHER -> FALSE

\* no input read so far declares a class with a superclass
NoSuperclass ==
    \A k \in 1..Len(lines) : \A j \in 1..Len(Pool[lines[k]]) :
        ~DeclaresSuperclass(Pool[lines[k]][j])

\* the input whose statements are being, or were last, visited
CurrentInput == IF lines = << >> THEN << >> ELSE Pool[lines[Len(lines)]]

\* the run of the current input has ended without an error
RanOk == pc = "ran" /\ last = "Ok"

LastTwoOutputs == SubSeq(outputted, Len(outputted) - 1, Len(outputted))

\* event k is a Variable, This or Assignment node with a recorded depth
Resolved_(k) == log[k].ev \in {"lookup", "assign"} /\ log[k].depth >= 0

\* event k is an Assignment evaluated within the initializer of the var
\* declaration of its name in the environment its depth points at
InOwnInitializer(k) ==
    /\ log[k].ev = "assign"
    /\ \E j \in 1..Len(log[k].initializing) :
          log[k].initializing[j] = <<log[k].target, log[k].name>>

\* C1, as claimed: in programs without superclasses, whenever a Variable, This
\* or Assignment node with recorded depth d is evaluated, the environment d
\* hops above the current one holds the name in its own value map.
C1_DepthReachesBinding ==
    NoSuperclass =>
        \A k \in DOMAIN log :
            Resolved_(k) => log[k].target # 0 /\ log[k].name \in log[k].own

\* C1, amended: the same, except for an Assignment evaluated within the
\* initializer of the var declaration of its own name in that environment,
\* where the d hops still reach that environment but the name is not yet
\* defined in it.
C1_DepthReachesBindingAmended ==
    NoSuperclass =>
        \A k \in DOMAIN log :
            Resolved_(k) =>
                /\ log[k].target # 0
                /\ ~InOwnInitializer(k) => log[k].name \in log[k].own

\* a `this` read two hops up (a function nested in a bound method) and an
\* assignment one hop up (a closure) have been evaluated
C1_Witness ==
    /\ NoSuperclass
    /\ \E k \in DOMAIN log :
          /\ Resolved_(k)
          /\ \/ log[k].ev = "lookup" /\ log[k].node = "This" /\ log[k].depth = 2
             \/ log[k].ev = "assign" /\ log[k].depth = 1
          /\ log[k].name \in log[k].own

C3_AssignAtDepth ==
    \A k \in DOMAIN log :
        (log[k].ev = "assign" /\ log[k].depth >= 0) =>
            /\ log[k].kind = "Ok"
            /\ log[k].target # 0
            /\ log[k].after = [log[k].before EXCEPT ![log[k].target].values =
                                  Insert(@, log[k].name, log[k].value)]

\* C4: !x is true when x is false or nil, and false for every other value.
C4_BangNegatesTruthiness ==
    \A k \in DOMAIN log :
        log[k].ev = "bang" =>
            /\ log[k].kind = "Ok"
            /\ log[k].val = BooleanValue(\/ log[k].operand.t = "Nil"
                                         \/ /\ log[k].operand.t = "Boolean"
                                            /\ ~log[k].operand.b)

\* the left operand of event k decides the result without the right one
Decided(k) ==
    \/ log[k].operator = "And" /\ ~is_truthy(log[k].left)
    \/ log[k].operator = "Or" /\ is_truthy(log[k].left)

\* C5: `and` and `or` yield the value of the operand that decided, unchanged.
C5_LogicalYieldsOperand ==
    \A k \in DOMAIN log :
        log[k].ev = "logical" =>
            log[k].val = IF Decided(k) THEN log[k].left ELSE log[k].rhs

\* C6: when the left operand decides, the right operand is not evaluated:
\* no expression is visited and nothing changes in the environments, the
\* instances or the output between the left operand and the return.
C6_ShortCircuit ==
    \A k \in DOMAIN log :
        (log[k].ev = "logical" /\ Decided(k)) => log[k].atreturn = log[k].atleft

\* an `or` with a truthy left operand and a call for right operand, and an
\* `and` with a falsy left operand and an assignment for right operand
C6_Witness ==
    \E k \in DOMAIN log :
        /\ log[k].ev = "logical" /\ Decided(k)
        /\ \/ log[k].operator = "Or" /\ log[k].right.e = "Call"
           \/ /\ log[k].operator = "And" /\ log[k].right.e = "Grouping"
              /\ log[k].right.expr.e \in {"Assignment", "Set"}

\* the instance a bound function was bound to
BoundThis(f) == envs[f.closure].values["this"]

\* C7: a call of a bound `init` that returns, by completing or by a return
\* statement, yields the instance it is bound to, in a direct call as in a
\* construction; and the construction of an instance yields the new instance.
C7_InitializerYieldsInstance ==
    \A k \in DOMAIN log :
        /\ (log[k].ev = "call" /\ log[k].function.is_initializer /\ log[k].kind = "Ok")
              => log[k].val = BoundThis(log[k].function)
        /\ (log[k].ev = "classcall" /\ log[k].kind = "Ok")
              => log[k].val = InstanceValue(log[k].instances + 1)

\* C8: obj.name yields the field, else the method found on the class or its
\* superclass chain bound to the instance, else AttributeError; and
\* AttributeError on a non-instance.
C8_GetFieldThenMethodChain ==
    \A k \in DOMAIN log :
        log[k].ev = "get" =>
            IF log[k].object.t # "Instance" THEN log[k].kind = "AttributeError"
            ELSE LET self == log[k].before.instances[log[k].object.i]
                     method == find_method(self.class, log[k].name)
                 IN IF ContainsKey(self.fields, log[k].name)
                    THEN log[k].kind = "Ok" /\ log[k].val = self.fields[log[k].name]
                    ELSE IF method.t = "Function"
                    THEN /\ log[k].kind = "Ok"
                         /\ log[k].val.t = "Function"
                         /\ log[k].val.declaration = method.declaration
                         /\ log[k].after.envs[log[k].val.closure] =
                               Environment(Insert(EmptyMap, "this", log[k].object),
                                           method.closure)
                    ELSE log[k].kind = "AttributeError"

\* C9: binding a method appends one environment, which defines only `this`
\* as the instance and whose parent is the method's closure, and changes no
\* other environment; the bound function has that environment for closure;
\* a Get changes no instance (so no class's stored method).  The methods
\* taken from two instances and called later print their own instance's field.
C9_BindFreshEnvironment ==
    /\ \A k \in DOMAIN log :
          /\ log[k].ev = "bind" =>
                /\ log[k].after = Append(log[k].before,
                      Environment(Insert(EmptyMap, "this", InstanceValue(log[k].instance)),
                                  log[k].method.closure))
                /\ log[k].bound = Function(log[k].method.declaration,
                                           Len(log[k].before) + 1,
                                           log[k].method.is_initializer)
          /\ log[k].ev = "get" => log[k].after.instances = log[k].before.instances
    /\ (RanOk /\ CurrentInput = BoundMethods) => LastTwoOutputs = << "1", "2" >>

\* the method of a second instance of a class has been bound by a Get
C9_Witness ==
    \E k \in DOMAIN log : \E j \in DOMAIN log :
        /\ log[k].ev = "bind" /\ log[j].ev = "get" /\ k < j
        /\ log[j].val = log[k].bound
        /\ log[k].instance > 1
        /\ instances[log[k].instance].class = instances[1].class

\* the arity the claim gives a class: that of the init found by method lookup
ClassArity(class) ==
    LET init == find_method(class, "init") IN
    IF init.t = "Function" THEN Len(init.declaration.parameters) ELSE 0

\* C10: a class called with as many arguments as the init found by method
\* lookup has parameters (zero without init) runs that init, bound to a new
\* instance, on the arguments, and yields the instance; with another number
\* of arguments it yields TypeError and runs no function body.
C10_ClassCallArity ==
    \A k \in DOMAIN log :
        log[k].ev = "classcall" =>
            LET init == find_method(log[k].class, "init")
                new == InstanceValue(log[k].instances + 1)
                body == (log[k].from + 1)..(k - 1)
            IN IF Len(log[k].args) # ClassArity(log[k].class)
               THEN /\ log[k].kind = "TypeError"
                    /\ \A j \in body : log[j].ev # "call"
               ELSE /\ init.t = "Function" =>
                          \E j \in body :
                              /\ log[j].ev = "call"
                              /\ log[j].function.declaration = init.declaration
                              /\ log[j].arguments = log[k].args
                              /\ BoundThis(log[j].function) = new
                    /\ log[k].kind = "Ok" => log[k].val = new

\* C11: in a program the resolver accepts, no visit of a top-level statement
\* ends with a Return: every function call whose body ended with a Return
\* gave a value to its caller, and the run never reports a Return.
C11_ReturnNeverEscapes ==
    /\ last # "Return"
    /\ \A k \in DOMAIN log :
          (log[k].ev = "call" /\ log[k].exit = "Return") => log[k].kind = "Ok"

\* a statement was visited without error and a call in it ended with a Return
C11_Witness ==
    /\ RanOk
    /\ \E k \in DOMAIN log : log[k].ev = "call" /\ log[k].exit = "Return"

\* stmt, not looking into nested declarations, holds a `return <expr>;`
RECURSIVE ReturnsValue(_)
ReturnsValue(stmt) ==
    CASE stmt.s = "Return" -> stmt.value.e # "None"
      [] stmt.s = "Block" ->
            \E k \in 1..Len(stmt.statements) : ReturnsValue(stmt.statements[k])
      [] stmt.s = "If" ->
            \/ ReturnsValue(stmt.then_branch)
            \/ stmt.else_branch.s # "None" /\ ReturnsValue(stmt.else_branch)
      [] stmt.s = "While" -> ReturnsValue(stmt.body)
      [] OTHER -> FALSE

\* stmt declares a class whose method `init` returns a value
InitReturnsValue(stmt) ==
    /\ stmt.s = "ClassDecl"
    /\ \E k \in 1..Len(stmt.methods) :
          /\ stmt.methods[k].name.lexeme = "init"
          /\ \E j \in 1..Len(stmt.methods[k].body) : ReturnsValue(stmt.methods[k].body[j])

\* C12: a program with `return <expr>;` inside a method named init has a
\* ResolvingError recorded, so none of its statements is ever visited.
C12_InitValueReturnRejected ==
    (\E k \in 1..Len(CurrentInput) : InitReturnsValue(CurrentInput[k]))
        => /\ pc # "eval"
           /\ (pc = "resolve" /\ resolving = << >>) => Len(errors) > 0

\* stmt declares a class whose superclass is named as the class itself
SelfInherits(stmt) ==
    /\ stmt.s = "ClassDecl"
    /\ stmt.superclass.e = "Variable"
    /\ stmt.superclass.token.lexeme = stmt.name.lexeme

\* C13: a program with `class C < C {}` has a ResolvingError recorded, so the
\* declaration is never visited.
C13_SelfInheritanceRejected ==
    (\E k \in 1..Len(CurrentInput) : SelfInherits(CurrentInput[k]))
        => /\ pc # "eval"
           /\ (pc = "resolve" /\ resolving = << >>) => Len(errors) > 0

\* C14: the evaluator never visits a Super node whose keyword has no entry in
\* the depth table: outside a subclass the resolver reports the node, inside
\* one it records a depth for the keyword.
C14_SuperKeywordResolved ==
    \A k \in DOMAIN log : log[k].ev = "super" => log[k].resolved

\* the iterator at token k of the tokens scanned, in a Parser with no error
At(k) == [tokens |-> scanner.tokens, pos |-> k, errors |-> << >>]

\* expr is the literal `true`
IsLiteralTrue(expr) == expr.e = "Literal" /\ expr.value = BooleanValue(TRUE)

\* the file read was parsed to its end
Parsed(src) == fpc = "parsed" /\ source = src

\* the statement `while (C) { S; U; }` of the clauses C (token from) and U
\* and the body S, read where they stand in the tokens of `for(;C;U)S`
WhileOfClauses(C, from) ==
    LET condition == IF C = << >> THEN At(from) ELSE expression(At(from)).st
        increment == expression(At(condition.pos + 1))
        body == statement(At(increment.st.pos + 1))
    IN  [while |-> WhileNode(IF C = << >> THEN parser.statements[1].condition
                             ELSE expression(At(from)).val,
                             BlockNode(<< body.val,
                                          [s |-> "Expression",
                                           expression |-> increment.val] >>)),
         end |-> body.st.pos]

\* C15: every `for (; C; U) S` parses without an error to the one statement
\* `while (C) { S; U; }`, with no block around the while statement; the
\* condition is the literal `true` when the clause C is empty.
C15_ForWithoutInitializer ==
    \A C \in ForConditions, U \in ForIncrements \ {<< >>}, S \in ForBodies :
        Parsed(ForSource(<< >>, C, U, S)) =>
            /\ parser.result = "Ok"
            /\ Len(parser.statements) = 1
            /\ parser.statements[1].s = "While"
            /\ C = << >> => IsLiteralTrue(parser.statements[1].condition)
            /\ parser.statements[1] = WhileOfClauses(C, 4).while
            /\ parser.pos = WhileOfClauses(C, 4).end

\* the while statement of what `for(I;C;)S` was parsed to
WhileOf(I, stmt) == IF I = << >> THEN stmt ELSE stmt.statements[2]

\* the statement `{ I; while (C) S }`, or `while (C) S` when I is empty, of
\* the clauses I and C and the body S, read where they stand in the tokens
\* of `for(I;C;)S`
BlockOfClauses(I, C) ==
    LET initializer == IF I = << >> THEN Res(At(4), "Ok", None)
                       ELSE for_initializer(At(3))
        condition == IF C = << >> THEN initializer.st
                     ELSE expression(initializer.st).st
        body == statement(At(condition.pos + 2))
        while == WhileNode(IF C = << >>
                           THEN WhileOf(I, parser.statements[1]).condition
                           ELSE expression(initializer.st).val,
                           body.val)
    IN  [block |-> IF I = << >> THEN while
                   ELSE BlockNode(<< initializer.val, while >>),
         end |-> body.st.pos]

\* C16: every `for (I; C; ) S` parses without an error to the one statement
\* `{ I; while (C) S }`, or `while (C) S` when I is empty too: the body of
\* the while statement is S, in no block and with no increment after it.
C16_ForWithoutIncrement ==
    \A I \in ForInitializers, C \in ForConditions, S \in ForBodies :
        Parsed(ForSource(I, C, << >>, S)) =>
            /\ parser.result = "Ok"
            /\ Len(parser.statements) = 1
            /\ parser.statements[1].s = IF I = << >> THEN "While" ELSE "Block"
            /\ I # << >> => Len(parser.statements[1].statements) = 2
            /\ C = << >> =>
                  IsLiteralTrue(WhileOf(I, parser.statements[1]).condition)
            /\ parser.statements[1] = BlockOfClauses(I, C).block
            /\ parser.pos = BlockOfClauses(I, C).end

\* the too-many error is among the errors recorded
TooMany ==
    \E k \in DOMAIN parser.errors :
        parser.errors[k].message = "can't have > 255 arguments to a function call"

\* the parameters or the arguments of the declaration parsed first
ListParsed ==
    LET stmt == parser.statements[1]
    IN  CASE stmt.s = "FunDecl" -> stmt.parameters
          [] stmt.s = "ClassDecl" -> stmt.methods[1].parameters
          [] stmt.s = "Expression" -> stmt.expression.arguments

\* C17: a parameter list or an argument list of n elements has the too-many
\* error recorded if and only if n > 255, so that parse returns Err from
\* n = 256 on and Ok up to n = 255; with or without the error the whole list
\* is parsed, with no synchronization: the declaration is the one statement
\* parsed, it has the n elements, and the only errors are too-many errors.
C17_TooManyFrom256 ==
    fpc = "parsed" =>
        \A n \in Lengths :
            source \in {FunSource(n), CallSource(n), MethodSource(n)} =>
                /\ TooMany <=> n > MAX_PARAMETERS
                /\ parser.result = IF n > MAX_PARAMETERS THEN "Err" ELSE "Ok"
                /\ Len(parser.statements) = 1
                /\ Len(ListParsed) = n
                /\ parser.pos = Len(scanner.tokens)
                /\ \A k \in DOMAIN parser.errors :
                      parser.errors[k].message
                          = "can't have > 255 arguments to a function call"

\* the token types and the lexemes of a token list
TokenTypes(tokens) == [k \in DOMAIN tokens |-> tokens[k].token_type]

Lexemes(tokens) == [k \in DOMAIN tokens |-> tokens[k].lexeme]

\* the scan of the current source has returned
ScanReturned == fpc \in {"scanned", "failed"}

\* lexeme is digits, or digits, one `.` and digits
NumberShaped(lexeme) ==
    \E n \in 1..Len(lexeme) :
        /\ \A k \in 1..n : lexeme[k] \in Digits
        /\ \/ n = Len(lexeme)
           \/ /\ n + 1 < Len(lexeme)
              /\ lexeme[n + 1] = "."
              /\ \A k \in (n + 2)..Len(lexeme) : lexeme[k] \in Digits

\* C18: the lexeme of a NUMBER token is a run of digits, optionally followed
\* by one `.` and a run of digits; `1.2.3` scans as NUMBER 1.2, DOT, NUMBER 3
\* and `1.;` as NUMBER 1, DOT, SEMICOLON.
C18_NumberLexeme ==
    /\ \A k \in DOMAIN scanner.tokens :
          scanner.tokens[k].token_type = "Number" => NumberShaped(scanner.tokens[k].lexeme)
    /\ (source = <<"1", ".", "2", ".", "3">> /\ fpc \notin {"idle", "scanning"}) =>
          /\ fpc = "scanned"
          /\ TokenTypes(scanner.tokens) = <<"Number", "Dot", "Number", "EOF">>
          /\ Lexemes(scanner.tokens) = << <<"1", ".", "2">>, <<".">>, <<"3">>, << >> >>
    /\ (source = <<"1", ".", ";">> /\ fpc \notin {"idle", "scanning"}) =>
          /\ fpc = "scanned"
          /\ TokenTypes(scanner.tokens) = <<"Number", "Dot", "Semicolon", "EOF">>
          /\ Lexemes(scanner.tokens) = << <<"1">>, <<".">>, <<";">>, << >> >>

\* C19: every scan that is started returns, with the tokens or with an error.
C19_ScanTerminates == (fpc = "scanning") ~> ScanReturned

\* C20: after a scan that returned Ok the last token is EOF and no token
\* before it is, in the first scan of a Scanner and in every later one.
C20_SingleEOF ==
    fpc = "scanned" =>
        /\ scanner.tokens # << >>
        /\ \A k \in DOMAIN scanner.tokens :
              scanner.tokens[k].token_type = "EOF" <=> k = Len(scanner.tokens)

\* a second scan has returned Ok with tokens before its EOF, after a first
\* scan that had made tokens too
C20_Witness ==
    /\ fpc = "scanned"
    /\ scans = 2
    /\ Len(scanner.tokens) > 1
    /\ scanner.next_id > Len(scanner.tokens)

\* an assignment with no recorded depth to a name the globals do not define
UndefinedGlobalAssign(event) ==
    /\ event.ev = "assign"
    /\ event.depth = -1
    /\ ~ContainsKey(event.before[globals].values, event.name)

\* C21: an assignment whose token has no depth and whose name is not defined
\* in the global environment yields NameError and writes nothing: the global
\* environment, and every other environment, is as it was when the
\* right-hand side had been evaluated.
C21_UndefinedGlobalAssign ==
    \A k \in DOMAIN log :
        UndefinedGlobalAssign(log[k]) =>
            /\ log[k].kind = "NameError"
            /\ log[k].after = log[k].before
            /\ DOMAIN log[k].after[globals].values
                   = DOMAIN log[k].before[globals].values

\* such an assignment was evaluated, after its right-hand side
C21_Witness ==
    /\ last = "NameError"
    /\ \E k \in DOMAIN log : UndefinedGlobalAssign(log[k]) /\ log[k].value # NilValue

\* the scan of the current line returned Ok
ScanOk == scanner.tokens # << >> /\ scanner.tokens[Len(scanner.tokens)].token_type = "EOF"

\* the parse of the current line returned Ok
ParseOk == ScanOk /\ fpc = "parsed" /\ parser.result = "Ok" /\ parser.errors = << >>

\* what the evaluator can change
Evaluated == <<envs, instances, environment, outputted>>

\* C22: in one run the stages go scan, parse, resolve, evaluate, and a stage
\* takes a step only when every stage before it returned without an error:
\* the parser only after a scan that returned Ok, the resolver only after a
\* parse that returned Ok, the evaluator only after a resolve with no error
\* and after statements that all returned Ok.  With an error of the resolver
\* nothing is printed and no environment changes; after a statement that
\* failed no statement of the line is visited.
C22_StagesInOrder ==
    [][ /\ scanner' # scanner => (fpc = "scanning" \/ pc = "prompt")
        /\ parser' # parser => (ScanOk /\ pc = "run" /\ fpc \in {"scanned", "parsing"})
        /\ (resolving' # resolving \/ locals' # locals \/ errors' # errors) =>
              (ParseOk /\ pc \in {"run", "resolve"})
        /\ (pc = "eval" \/ Evaluated' # Evaluated) =>
              (ParseOk /\ pc = "eval" /\ resolving = << >> /\ errors = << >>
                 /\ last = "Ok")
        /\ (pc = "resolve" /\ pc' # "resolve" /\ errors # << >>) =>
              (pc' = "ran" /\ statements' = << >> /\ had_error')
        /\ (pc = "eval" /\ last' # "Ok") =>
              /\ pc' # "eval"
              /\ pc' = "ran" => (had_error' /\ statements' = << >>)
      ]_vars

\* a line whose second statement failed after the first had printed, read
\* after a line that printed nothing
C22_Witness ==
    /\ pc = "ran"
    /\ scans = 2
    /\ last = "TypeError"
    /\ had_error
    /\ outputted = <<"1">>
    /\ statements = << >>

\* the print events of a log
RECURSIVE Rendered(_)
Rendered(events) ==
    IF events = << >> THEN << >>
    ELSE IF Head(events).ev = "print"
    THEN <<DisplayIn(Head(events).instances, Head(events).value)>>
             \o Rendered(Tail(events))
    ELSE Rendered(Tail(events))

\* C23: while a line that was scanned, parsed and resolved without error is
\* visited, each statement that returns Ok appends to the sink the rendered
\* value of each print statement executed in it, in the order of execution,
\* and nothing else; no other step of the run appends to the sink or takes
\* from it.
C23_OnePerPrint ==
    [][ /\ (pc = "eval" /\ last' = "Ok") => outputted' = outputted \o Rendered(log')
        /\ pc # "eval" => outputted' = outputted
      ]_vars

\* a statement that executed two print statements, and evaluated other
\* expressions, has returned Ok
C23_Witness ==
    /\ pc = "ran"
    /\ last = "Ok"
    /\ Len(Rendered(log)) = 2
    /\ Len(log) > 2
    /\ Len(outputted) > 2

\* C24: `{1=2;print 3;}`, where the left-hand side of `=` is a literal, has
\* exactly one error recorded, "invalid assignment target", and parse returns
\* Err; the parser goes on after the right-hand side with no token skipped:
\* `;`, the print statement and `}` are parsed as the rest of the block, and
\* the block is the one statement parsed, which ends at the EOF.
C24_InvalidTargetGoesOn ==
    Parsed(InvalidTarget) =>
        /\ parser.result = "Err"
        /\ Len(parser.errors) = 1
        /\ parser.errors[1].message = "invalid assignment target"
        /\ Len(parser.statements) = 1
        /\ parser.statements[1].s = "Block"
        /\ parser.statements[1].statements[Len(parser.statements[1].statements)]
               = statement(At(6)).val
        /\ parser.pos = Len(scanner.tokens)

\* the parser may resume at token p: the token before it is `;`, or it is a
\* keyword a statement starts with, or no token is left
Synchronized(tokens, p) ==
    \/ p > Len(tokens)
    \/ p > 1 /\ tokens[p - 1].token_type = "Semicolon"
    \/ tokens[p].token_type \in StatementStarts

\* C25: a round of Parser::parse whose declaration returned an Err at token
\* e pushes the error and resumes at a token p > e, the first after e where
\* the token before is `;`, the token is a statement keyword or the tokens
\* are exhausted; no statement is pushed for the tokens from e to p.
C25_SynchronizeResumes ==
    [][ (fpc = "parsing" /\ fpc' = "parsing" /\ parser' # parser) =>
          LET r == declaration(Cursor(parser, scanner.tokens)) IN
          r.kind = "Err" =>
              /\ parser'.pos > r.st.pos
              /\ Synchronized(scanner.tokens, parser'.pos)
              /\ \A k \in (r.st.pos + 1)..(parser'.pos - 1) :
                    ~Synchronized(scanner.tokens, k)
              /\ parser'.statements = parser.statements
              /\ parser'.errors = Append(r.st.errors, r.val)
      ]_vars

\* the parser has synchronized at a statement keyword that no `;` precedes,
\* after it had skipped more than the token of the error
C25_Witness ==
    /\ fpc = "parsing"
    /\ Len(parser.errors) = 1
    /\ parser.statements = << >>
    /\ parser.pos > 3
    /\ parser.pos <= Len(scanner.tokens)
    /\ scanner.tokens[parser.pos].token_type \in StatementStarts
    /\ scanner.tokens[parser.pos - 1].token_type # "Semicolon"

\* the ids of a token list
Ids(tokens) == {tokens[k].id : k \in DOMAIN tokens}

\* the tokens of scanner' that scanner does not hold
Emitted(old, new) ==
    IF Len(new) >= Len(old) /\ SubSeq(new, 1, Len(old)) = old
    THEN SubSeq(new, Len(old) + 1, Len(new))
    ELSE new

\* C26: over the scans of one Scanner, failed ones included, each token
\* emitted has an id greater than the id of every token emitted before it:
\* ids grow along the token list, each is below the counter, and a token
\* gets an id that is at least the counter before it, which never goes down.
\* The entries of the depth table are never overwritten, and an entry is
\* recorded under the id of a token of the line being run.
C26_IdsGrow ==
    [][ /\ scanner'.next_id >= scanner.next_id
        /\ \A k \in DOMAIN scanner.tokens : scanner.tokens[k].id < scanner.next_id
        /\ \A k \in DOMAIN scanner'.tokens : scanner'.tokens[k].id < scanner'.next_id
        /\ \A j, k \in DOMAIN scanner'.tokens :
              j < k => scanner'.tokens[j].id < scanner'.tokens[k].id
        /\ \A id \in Ids(Emitted(scanner.tokens, scanner'.tokens)) :
              id >= scanner.next_id
        /\ \A id \in DOMAIN locals : id \in DOMAIN locals' /\ locals'[id] = locals[id]
        /\ \A id \in DOMAIN locals' \ DOMAIN locals : id \in Ids(scanner.tokens)
      ]_vars

\* the second line has been resolved: the depth table holds an entry of the
\* first line and an entry of the second
C26_Witness ==
    /\ scans = 2
    /\ pc = "eval"
    /\ \E id \in DOMAIN locals : id < scanner.tokens[1].id
    /\ \E id \in DOMAIN locals : id \in Ids(scanner.tokens)

\* C27: every execute_block that returns, with Ok, with a runtime error or
\* with a Return, returns with the environment current that was current
\* when it was entered; the statements it ran left the environment it was
\* given current, so the blocks and calls nested in it had restored it too.
C27_BlockRestores ==
    \A k \in DOMAIN log :
        log[k].ev = "block" =>
            /\ log[k].exit = log[k].entry
            /\ log[k].left = log[k].env
            /\ log[k].env # log[k].entry

\* in one statement blocks were left with a Return, with Ok and, a block
\* nested in a block, with a runtime error
C27_Witness ==
    /\ last = "TypeError"
    /\ \E k \in DOMAIN log : log[k].ev = "block" /\ log[k].kind = "Return" /\ log[k].nested
    /\ \E k \in DOMAIN log : log[k].ev = "block" /\ log[k].kind = "Ok"
    /\ \E j, k \in DOMAIN log :
          /\ j < k
          /\ log[j].ev = "block" /\ log[j].kind = "TypeError"
          /\ log[k].ev = "block" /\ log[k].kind = "TypeError"
          /\ log[j].entry = log[k].env

\* C28: whenever a Variable, This or Assignment node with a recorded depth d
\* is evaluated in a method of a class that declares a superclass, its d hops
\* from the current environment reach an environment that holds the name in
\* its own value map: the resolver counted the scope of `super` that the
\* closure of the method has between `this` and the class declaration.
C28_SuperScopeCounted ==
    \A k \in DOMAIN log :
        (Resolved_(k) /\ log[k].subclass) =>
            (log[k].target # 0 /\ log[k].name \in log[k].own)

\* C29: whenever visit_statement has returned for a top-level statement,
\* with Ok or with a runtime error, and before the first is visited, the
\* current environment of the evaluator is the global environment.
C29_BackAtGlobals ==
    pc # "crashed" => environment = globals

\* a top-level statement returned with a runtime error that had left a
\* block within a block
C29_Witness ==
    /\ pc = "ran"
    /\ last = "TypeError"
    /\ environment = globals
    /\ \E k \in DOMAIN log :
          log[k].ev = "block" /\ log[k].kind = "TypeError" /\ log[k].entry # globals

\* the tokens of the source under parse
Tokens == scanner.tokens

\* a round of the loop of Parser::parse is about to run
InRound == fpc = "parsing" /\ ~AtEnd

\* C30: Parser::parse terminates on the tokens of every source, which end
\* with the one EOF: a round of its loop starts at a token, its grammar
\* routines stop at the EOF or before it, every round (with or without
\* recovery) takes at least one token, only synchronize takes the EOF, and
\* once it has the loop is left.
C30_ParseTerminates ==
    /\ [](fpc = "parsing" =>
             /\ Tokens[Len(Tokens)].token_type = "EOF"
             /\ \A k \in 1..(Len(Tokens) - 1) : Tokens[k].token_type # "EOF"
             /\ parser.pos \in 1..(Len(Tokens) + 1)
             /\ (parser.pos > Len(Tokens) => parser.errors # << >>))
    /\ [](InRound =>
             declaration(Cursor(parser, Tokens)).st.pos \in parser.pos..Len(Tokens))
    /\ [][(InRound /\ parser' # parser) =>
             (parser'.pos > parser.pos /\ fpc' = "parsing")]_vars
    /\ (fpc = "parsing") ~> (fpc = "parsed")

\* parse returned after synchronize took the EOF that ended a block with no }
C30_Witness ==
    /\ fpc = "parsed"
    /\ parser.result = "Err"
    /\ parser.pos = Len(Tokens) + 1
    /\ \E k \in DOMAIN parser.errors :
          parser.errors[k].message = "reached EOF while parsing, expected '}'"

====
